---- MODULE Spec2Model ----
(***************************************************************************)
(* Model of the Stripe account migration tooling: the StripeMigrator       *)
(* library class (src/StripeMigrator.js) and the stand-alone scripts       *)
(* 5-migrate-products, 6-migrate-customers and 7-migrate-subscriptions.    *)
(* A migration run loads an export dataset and the mapping file            *)
(* (migration-map.json), walks the dataset in order, issues one creation   *)
(* call at a time to the target account, and writes old id -> new id into  *)
(* the in-memory map, which it flushes to the mapping file.                *)
(***************************************************************************)
EXTENDS Integers, Sequences, FiniteSets, TLC

\* ------------------------------------------------------------------ bounds
\* Number of migration runs started in one behaviour.
MaxRuns == 2
\* Objects the target account accepts to create for one source record.
MaxCopies == 2
\* Largest clock value (seconds) read by a run.
MaxClock == 1
\* Largest batch size passed by the caller (0 stands for "option absent").
MaxBatch == 2
\* Rejections by the target plus terminations of the process in one behaviour.
MaxFaults == 1
\* Records of one kind in the source account when an export runs.
MaxRecords == 3
\* Records the source returns in one page (the exports ask for limit: 100).
MaxPage == 2

\* --------------------------------------------------------- program constants
\* config.batchSize || 50, options.batchSize || 50
DefaultBatchSize == 50
\* migratedCount % 25 in both subscription migrations
SubscriptionCheckpointEvery == 25

\* --------------------------------------------------------------- JS values
\* undefined / absent property
Undefined == <<>>
\* trial_end: 'now'
TrialNow == <<"now">>
\* a numeric timestamp field of a request
Ts(t) == <<"ts", t>>

\* A new identifier returned by the target: the n-th object the target created
\* from a request whose metadata carries the old identifier `old`.
NewId(old, n) == <<old, n>>

Kinds == {"products", "prices", "customers", "subscriptions"}
\* the elements of a sequence
Range(q) == {q[i] : i \in 1..Len(q)}
EmptyTable == [x \in {} |-> Undefined]

\* ------------------------------------------------------------ export datasets
\* products-export.json, `products`
\* prod_B, price_2, cus_1 and sub_2 carry in their metadata the key of an earlier
\* migration into the source account.
ProductsExport ==
    << [id |-> "prod_A"],
       [id |-> "prod_B", metadata |-> [old_stripe_product_id |-> "prod_0"]] >>

\* products-export.json, `prices`; the second choice holds a price whose product
\* is not part of the export (the export lists active products only).
PricesExportA ==
    << [id |-> "price_1", product |-> "prod_A", unit_amount |-> 0],
       [id |-> "price_2", product |-> "prod_B", unit_amount |-> 500,
        metadata |-> [old_stripe_price_id |-> "price_0"]] >>
PricesExportB ==
    << [id |-> "price_1", product |-> "prod_A", unit_amount |-> 0],
       [id |-> "price_3", product |-> "prod_X", unit_amount |-> 900],
       [id |-> "price_2", product |-> "prod_B", unit_amount |-> 500,
        metadata |-> [old_stripe_price_id |-> "price_0"]] >>

\* customers-export.json
CustomersExport ==
    << [id |-> "cus_1", metadata |-> [old_stripe_customer_id |-> "cus_0", plan |-> "gold"]],
       [id |-> "cus_2"], [id |-> "cus_3"] >>

\* subscriptions-export.json; items.data[i].price is the expanded price object.
\* trial_end 0 stands for null (null is falsy and compares like 0).
SubscriptionsExport ==
    << [id |-> "sub_1", customer |-> "cus_1", status |-> "active",
        items |-> << [price |-> [id |-> "price_1", unit_amount |-> 0]] >>,
        billing_cycle_anchor |-> 1, current_period_end |-> 2, trial_end |-> 0],
       [id |-> "sub_2", customer |-> "cus_2", status |-> "trialing",
        items |-> << [price |-> [id |-> "price_1", unit_amount |-> 0]],
                     [price |-> [id |-> "price_2", unit_amount |-> 500]] >>,
        billing_cycle_anchor |-> 2, current_period_end |-> 2, trial_end |-> 1,
        metadata |-> [old_stripe_subscription_id |-> "sub_0"]],
       [id |-> "sub_3", customer |-> "cus_1", status |-> "past_due",
        items |-> << [price |-> [id |-> "price_2", unit_amount |-> 500]] >>,
        billing_cycle_anchor |-> 1, current_period_end |-> 2, trial_end |-> 0] >>

\* no dataset file has been written: nothing can be read
NoExports == [k \in Kinds |-> << >>]

SeqIds(s) == {s[i].id : i \in 1..Len(s)}
AllIds == SeqIds(ProductsExport) \cup SeqIds(PricesExportB)
          \cup SeqIds(CustomersExport) \cup SeqIds(SubscriptionsExport)

VARIABLES
    exports,        \* the export dataset files
    file,           \* migration-map.json: [exists, map]
    target,         \* target account: old id -> number of objects created from it
    clock,          \* Date.now() / 1000 as last read
    stage,          \* the migration function that is running
    kind,           \* the loop the run is in
    idx,            \* 1-based position of the loop in its dataset
    pc,             \* "idle", "loop", "await", "done", "aborted", "killed"
    req,            \* the creation request that is outstanding at the target
    mem,            \* migrationMap, the in-memory map of the run
    migratedCount,  \* migratedCount
    errors,         \* the failures the run has made known, in order, each with the
                    \* channel it went through (via): "errors" an entry of the run's
                    \* errors array, "log" a this.log line, "console" a console.error
                    \* line, "throw" the exception that ended the run
    batchSize,      \* checkpoint interval of the run
    statusFilter,   \* statusFilter of the run
    calls,          \* old ids for which the run issued a creation call
    written,        \* old ids for which the run wrote a mapping entry, in order
    startFile,      \* the mapping file as the run found it
    prev,           \* how the previous run ended
    runs,           \* runs started so far
    faults,         \* target rejections and process terminations so far
    source,         \* the source account: the records of each kind, in list order
    pageLen,        \* records the source returns per page
    present,        \* the dataset files that exist
    buf,            \* the array an export accumulates
    startingAfter,  \* startingAfter
    hasMore,        \* hasMore
    links,          \* paymentLinks of the running link generation
    linksFile,      \* payment-update-links.json: [exists, links]
    sessions,       \* checkout sessions the target account has created
    stats,          \* stats of the running status scan
    account,        \* target account: new customer id -> payment method, subscriptions
    reportFile,     \* payment-status-report.json: [exists, summary]
    errorFiles,     \* the error side files of scripts 6, 7 and 8: [exists, errors]
    db,             \* the application database as committed: table -> rows
    work,           \* the tables as the open transaction sees them
    txn,            \* the transaction: "none", "open", "commit", "rollback"
    conn,           \* the database connection: "none", "open", "closed"
    plan,           \* the batches of statements the database update has still to run
    dbpc            \* position of the database update

env == <<exports, file, target, clock>>
proc == <<stage, kind, idx, pc, req, mem, migratedCount, errors, batchSize, statusFilter>>
hist == <<calls, written, startFile, prev, runs, faults>>
dbst == <<db, work, txn, conn, plan, dbpc>>
rprt == <<links, linksFile, sessions, stats, account, reportFile, dbst>>
kept == <<source, pageLen, present, buf, startingAfter, hasMore, rprt>>
xprt == <<kept, errorFiles>>
vars == <<env, proc, hist, xprt>>

Stages == {"LibProducts", "Script5", "LibCustomers", "Script6",
           "LibSubscriptions", "Script7"}
StageKind(s) ==
    CASE s \in {"LibProducts", "Script5"} -> "products"
      [] s \in {"LibCustomers", "Script6"} -> "customers"
      [] s \in {"LibSubscriptions", "Script7"} -> "subscriptions"
      [] OTHER -> "none"

DatasetFiles == {"products-export.json", "customers-export.json",
                 "subscriptions-export.json"}

NoReq == [kind |-> "none"]
NoLinksFile == [exists |-> FALSE, links |-> << >>]
NoStats == [total |-> 0, withPaymentMethod |-> 0, withoutPaymentMethod |-> 0,
            activeSubscriptions |-> 0, incompleteSubscriptions |-> 0,
            freeSubscriptions |-> 0, paidSubscriptions |-> 0,
            customersNeedingAction |-> << >>]
NoReportFile == [exists |-> FALSE, summary |-> NoStats]
\* customer-migration-errors.json, subscription-migration-errors.json and
\* payment-link-errors.json, by the stage that writes them; none exists
NoErrorFiles == [s \in {"Script6", "Script7", "Script8"} |-> [exists |-> FALSE, errors |-> << >>]]
\* what the reporting stages work on, before either has run
\* no application database is attached
NoDatabase ==
    /\ db = [t \in {} |-> << >>] /\ work = db
    /\ txn = "none" /\ conn = "none" /\ plan = << >> /\ dbpc = "idle"
NoReports ==
    /\ links = << >> /\ linksFile = NoLinksFile /\ sessions = 0
    /\ stats = NoStats /\ reportFile = NoReportFile
    /\ errorFiles = NoErrorFiles
    /\ NoDatabase
NoFile == [exists |-> FALSE, map |-> [k \in {} |-> EmptyTable]]
NoPrev == [stage |-> "none", end |-> "none", failed |-> {}, created |-> {},
           statusFilter |-> {}]

\* ------------------------------------------------------------ mapping store
\* migrationMap.<k> is an object (not undefined)
HasTable(m, k) == k \in DOMAIN m
\* migrationMap.<k>[id]
Get(m, k, id) == IF id \in DOMAIN m[k] THEN m[k][id] ELSE Undefined
\* JS truthiness of a looked-up identifier
Truthy(v) == v # Undefined
\* migrationMap.<k>[id] = v
Put(m, k, id, v) ==
    [m EXCEPT ![k] = [x \in DOMAIN @ \cup {id} |-> IF x = id THEN v ELSE @[x]]]
\* if (!migrationMap.<k>) migrationMap.<k> = {}
EnsureTable(m, k) ==
    IF k \in DOMAIN m THEN m
    ELSE [x \in DOMAIN m \cup {k} |-> IF x = k THEN EmptyTable ELSE m[x]]

\* variant: the file is not read
getMigrationMapFresh == [k \in Kinds |-> EmptyTable]

\* getMigrationMap(): the parsed file, or four empty tables
getMigrationMap ==
    IF file.exists THEN file.map ELSE [k \in Kinds |-> EmptyTable]
\* JSON.parse(JSON.stringify(map)): a property whose value is undefined is left out
JsonRoundTrip(m) ==
    [k \in DOMAIN m |-> [x \in {y \in DOMAIN m[k] : m[k][y] # Undefined} |-> m[k][x]]]
\* saveMigrationMap(map) / fs.writeFileSync(mapPath, ...): full overwrite
saveMigrationMap(m) == [exists |-> TRUE, map |-> JsonRoundTrip(m)]

\* `if (migrationMap.<k>[id]) continue`
AlreadyMigrated(m, k, id) == Truthy(Get(m, k, id))

\* migratedCount % batch === 0
CheckpointDue(count, batch) == count % batch = 0

\* options.batchSize || 50 (0 and absent are both falsy)
BatchSizeOf(b) == IF b = 0 THEN DefaultBatchSize ELSE b
\* config.batchSize as given to the constructor of a migrator whose product or
\* subscription migration is run
ConfigBatchSizes == {0, 1}

\* ------------------------------------------------------------ initial states
FullTable(s) == [x \in SeqIds(s) |-> NewId(x, 1)]
PartTable(s, missing) == [x \in SeqIds(s) \ missing |-> NewId(x, 1)]

\* The mapping file left by earlier complete runs of the library's product and
\* customer migrations.
FileAfterLib ==
    saveMigrationMap([k \in Kinds |->
        CASE k = "products" -> FullTable(ProductsExport)
          [] k = "prices" -> FullTable(PricesExportA)
          [] k = "customers" -> FullTable(CustomersExport)
          [] OTHER -> EmptyTable])
\* The mapping file left by earlier library runs in which the creations of
\* price_2 and cus_2 failed, and a subscription run that migrated nothing.
FilePartial ==
    saveMigrationMap([k \in Kinds |->
        CASE k = "products" -> FullTable(ProductsExport)
          [] k = "prices" -> PartTable(PricesExportA, {"price_2"})
          [] k = "customers" -> PartTable(CustomersExport, {"cus_2"})
          [] OTHER -> EmptyTable])

TargetOf(f) ==
    [x \in AllIds |->
        IF f.exists /\ \E k \in DOMAIN f.map : x \in DOMAIN f.map[k] THEN 1 ELSE 0]

Init ==
    /\ \/ /\ exports \in { [products |-> ProductsExport, prices |-> pr,
                            customers |-> CustomersExport,
                            subscriptions |-> SubscriptionsExport]
                           : pr \in {PricesExportA, PricesExportB} }
          /\ present = DatasetFiles
       \/ /\ exports = NoExports
          /\ present = {}
    /\ file \in {NoFile, FileAfterLib, FilePartial}
    /\ exports.prices # PricesExportA => file = NoFile
    /\ target = TargetOf(file)
    /\ clock = 0
    /\ stage = "none" /\ kind = "none" /\ idx = 0 /\ pc = "idle"
    /\ req = NoReq
    /\ mem = [k \in {} |-> EmptyTable]
    /\ migratedCount = 0
    /\ errors = <<>>
    /\ batchSize = DefaultBatchSize
    /\ statusFilter = {}
    /\ calls = {} /\ written = <<>>
    /\ startFile = file
    /\ prev = NoPrev
    /\ runs = 0
    /\ faults = 0
    /\ source = exports
    /\ pageLen = 1
    /\ NoReports /\ account = << >>
    /\ buf = <<>>
    /\ startingAfter = Undefined
    /\ hasMore = FALSE


\* ------------------------------------------------------------ run bookkeeping
Idle == pc \in {"idle", "done", "aborted", "killed"}

\* Old ids whose creation call failed in the run that is ending.
FailedIds == {errors[i].id : i \in {j \in 1..Len(errors) : errors[j].why = "create"}}

Err(id, why, via) == [id |-> id, why |-> why, via |-> via]

\* A run starts: locals are initialised, the previous run is remembered; e holds
\* the exception of a run that fails before its loop.
BeginWith(s, k, p, m, b, f, e) ==
    /\ Idle /\ runs < MaxRuns
    /\ stage' = s /\ kind' = k /\ idx' = 1 /\ pc' = p /\ req' = NoReq
    /\ mem' = m /\ migratedCount' = 0 /\ errors' = e
    /\ batchSize' = b /\ statusFilter' = f
    /\ calls' = {} /\ written' = <<>> /\ startFile' = file
    /\ prev' = [stage |-> stage, end |-> pc, failed |-> FailedIds,
                created |-> {written[i] : i \in 1..Len(written)},
                statusFilter |-> statusFilter]
    /\ runs' = runs + 1
    /\ UNCHANGED <<xprt, env, faults>>

Begin(s, k, p, m, b, f) == BeginWith(s, k, p, m, b, f, <<>>)

MappingFile == "migration-map.json"

\* the dataset files a stage reads when it starts, in the order it reads them
DatasetsOf(s) ==
    CASE s \in {"LibProducts", "Script5"} -> << "products-export.json" >>
      [] s \in {"LibCustomers", "Script6"} -> << "customers-export.json" >>
      [] s \in {"LibSubscriptions", "Script7"} -> << "subscriptions-export.json" >>
      [] s = "Script8" -> << "subscriptions-export.json", "customers-export.json" >>
      [] OTHER -> << >>

\* the stage reads the mapping file with fs.readFileSync, without fs.existsSync
ReadsMappingFile(s) == s \in {"Script6", "Script7", "Script8", "Script9"}

\* the first file the stage reads that does not exist; "" when none is missing
MissingFile(s) ==
    LET absent == SelectSeq(DatasetsOf(s), LAMBDA d : d \notin present) IN
    IF absent # << >> THEN absent[1]
    ELSE IF ReadsMappingFile(s) /\ ~file.exists THEN MappingFile
    ELSE ""

\* fs.readFileSync (or the existsSync check) throws: the run ends before its loop
SetupFailed(s, k, b, f) ==
    BeginWith(s, k, "aborted", [x \in {} |-> EmptyTable], b, f,
              << Err(MissingFile(s), "setup", "throw") >>)

\* variant: the loop returns after its first record
LoopOverEarly(i, records) == i > 1

\* `for (const record of records)` has passed the last record
LoopOver(i, records) == i > Len(records)

\* variant: the loop index is advanced twice
ContinueSkipping ==
    /\ idx' = idx + 2 /\ pc' = "loop" /\ req' = NoReq

\* `continue` / end of the loop body
Continue ==
    /\ idx' = idx + 1 /\ pc' = "loop" /\ req' = NoReq

\* await newStripe.<kind>.create(r): the request is outstanding
Issue(r) ==
    /\ pc' = "await" /\ req' = r /\ calls' = calls \cup {r.old}
    /\ UNCHANGED <<xprt, env, stage, kind, idx, mem, migratedCount, errors, batchSize,
                   statusFilter, written, startFile, prev, runs, faults>>

\* a loop step that only moves to the next record
Skip ==
    /\ Continue
    /\ UNCHANGED <<xprt, env, stage, kind, mem, migratedCount, errors, batchSize,
                   statusFilter, hist>>

\* a loop step that reports a failure and moves to the next record
Report(e) ==
    /\ Continue /\ errors' = Append(errors, e)
    /\ UNCHANGED <<xprt, env, stage, kind, mem, migratedCount, batchSize, statusFilter, hist>>

\* an exception that leaves the migration function: the run ends without a save
Abort(e) ==
    /\ pc' = "aborted" /\ req' = NoReq /\ errors' = Append(errors, e)
    /\ UNCHANGED <<xprt, env, stage, kind, idx, mem, migratedCount, batchSize,
                   statusFilter, hist>>

\* if (errors.length > 0) fs.writeFileSync(errorsPath, JSON.stringify(errors))
ErrorsSaved ==
    IF stage \in DOMAIN errorFiles /\ Len(errors) > 0
    THEN [errorFiles EXCEPT ![stage] = [exists |-> TRUE, errors |-> errors]]
    ELSE errorFiles

\* the loop is over: flush, then go on to loop k2 or finish
Flush(k2, p2) ==
    /\ file' = saveMigrationMap(mem)
    /\ errorFiles' = ErrorsSaved
    /\ kind' = k2 /\ idx' = (IF p2 = "done" THEN idx ELSE 1) /\ pc' = p2
    /\ UNCHANGED <<kept, exports, target, clock, stage, req, mem, migratedCount, errors,
                   batchSize, statusFilter, hist>>

\* the key under which a creation request embeds the old identifier
OldIdKey(k) ==
    CASE k = "products" -> "old_stripe_product_id"
      [] k = "prices" -> "old_stripe_price_id"
      [] k = "customers" -> "old_stripe_customer_id"
      [] OTHER -> "old_stripe_subscription_id"
\* record.metadata, an empty object when the record has none
SourceMetadata(record) ==
    IF "metadata" \in DOMAIN record THEN record.metadata ELSE [x \in {} |-> ""]
\* variant: { [key]: id, ...metadata }
WithOldIdFirst(metadata, key, id) ==
    [x \in DOMAIN metadata \cup {key} |-> IF x \in DOMAIN metadata THEN metadata[x] ELSE id]
\* { ...metadata, [key]: id }
WithOldId(metadata, key, id) ==
    [x \in DOMAIN metadata \cup {key} |-> IF x = key THEN id ELSE metadata[x]]
\* { ...metadata, [key]: value }: a later key replaces the same key of the spread
Spread(metadata, key, value) ==
    [x \in DOMAIN metadata \cup {key} |-> IF x = key THEN value ELSE metadata[x]]
\* new Date().toISOString() of scripts 5, 6 and 7: the time of the call as text,
\* which nothing reads back
IsoTimestamp == "<iso-timestamp>"
\* the old identifier a request carries in its metadata
Traced(r) == r.metadata[OldIdKey(r.kind)]

\* the target created the object and returned its identifier; `save` tells
\* whether the run flushes after writing the entry
Created(save) ==
    LET newId == NewId(Traced(req), target[req.old] + 1)
        m2 == Put(mem, req.kind, req.old, newId) IN
    /\ target[req.old] < MaxCopies
    /\ target' = [target EXCEPT ![req.old] = @ + 1]
    /\ mem' = m2
    /\ migratedCount' = migratedCount + 1
    /\ written' = Append(written, req.old)
    /\ file' = IF save THEN saveMigrationMap(m2) ELSE file
    /\ Continue
    /\ UNCHANGED <<xprt, exports, clock, stage, kind, errors, batchSize, statusFilter,
                   calls, startFile, prev, runs, faults>>

\* variant: the catch swallows the error without reporting it
RejectedSilently(via) ==
    /\ faults < MaxFaults /\ faults' = faults + 1
    /\ Continue
    /\ UNCHANGED <<xprt, env, stage, kind, mem, migratedCount, errors, batchSize,
                   statusFilter, calls, written, startFile, prev, runs>>

\* variant: the mapping entry is written before the call has succeeded
RejectedMapped(via) ==
    /\ faults < MaxFaults /\ faults' = faults + 1
    /\ Continue /\ errors' = Append(errors, Err(req.old, "create", via))
    /\ mem' = Put(mem, req.kind, req.old, NewId(req.old, 0))
    /\ written' = Append(written, req.old)
    /\ UNCHANGED <<xprt, env, stage, kind, migratedCount, batchSize, statusFilter,
                   calls, startFile, prev, runs>>

\* the target rejected the request (or the call failed): the error is caught by
\* the loop body's catch and reported through `via`
Rejected(via) ==
    /\ faults < MaxFaults /\ faults' = faults + 1
    /\ Continue /\ errors' = Append(errors, Err(req.old, "create", via))
    /\ UNCHANGED <<xprt, env, stage, kind, mem, migratedCount, batchSize, statusFilter,
                   calls, written, startFile, prev, runs>>

\* the target rejected the request and the catch rethrows: the run ends
RejectedRethrown(via) ==
    /\ faults < MaxFaults /\ faults' = faults + 1
    /\ pc' = "aborted" /\ req' = NoReq
    /\ errors' = Append(errors, Err(req.old, "create", via))
    /\ UNCHANGED <<xprt, env, stage, kind, idx, mem, migratedCount, batchSize,
                   statusFilter, calls, written, startFile, prev, runs>>

\* ------------------------------------------------ StripeMigrator.migrateProducts
ProductRequest(product) ==
    [kind |-> "products", old |-> product.id,
     metadata |-> WithOldId(SourceMetadata(product), OldIdKey("products"), product.id)]
PriceRequest(price, newProductId) ==
    [kind |-> "prices", old |-> price.id, product |-> newProductId,
     metadata |-> WithOldId(SourceMetadata(price), OldIdKey("prices"), price.id)]

StartLibProducts ==
    /\ Idle /\ runs < MaxRuns
    /\ \E b \in ConfigBatchSizes :
            IF MissingFile("LibProducts") # ""
            THEN SetupFailed("LibProducts", "products", BatchSizeOf(b), {})
            ELSE Begin("LibProducts", "products", "loop", getMigrationMap,
                       BatchSizeOf(b), {})

LibProductStep ==
    /\ stage = "LibProducts" /\ kind = "products" /\ pc = "loop"
    /\ IF LoopOver(idx, exports.products)
       THEN Flush("prices", "loop")
       ELSE LET product == exports.products[idx] IN
            IF AlreadyMigrated(mem, "products", product.id)
            THEN Skip
            ELSE Issue(ProductRequest(product))

LibProductReturn ==
    /\ stage = "LibProducts" /\ kind = "products" /\ pc = "await"
    /\ \/ Created(FALSE)
       \/ Rejected("log")

LibPriceStep ==
    /\ stage = "LibProducts" /\ kind = "prices" /\ pc = "loop"
    /\ IF LoopOver(idx, exports.prices)
       THEN Flush("prices", "done")
       ELSE LET price == exports.prices[idx]
                newProductId == Get(mem, "products", price.product) IN
            IF AlreadyMigrated(mem, "prices", price.id)
            THEN Skip
            ELSE IF ~Truthy(newProductId)
            THEN Skip
            ELSE Issue(PriceRequest(price, newProductId))

LibPriceReturn ==
    /\ stage = "LibProducts" /\ kind = "prices" /\ pc = "await"
    /\ \/ Created(FALSE)
       \/ Rejected("log")

\* ------------------------------------------------ script 5, migrateProducts
StartScript5 ==
    /\ Idle /\ runs < MaxRuns
    /\ IF MissingFile("Script5") # ""
        THEN SetupFailed("Script5", "products", DefaultBatchSize, {})
        ELSE Begin("Script5", "products", "loop",
                   IF file.exists THEN file.map
                   ELSE [k \in {"products", "prices"} |-> EmptyTable],
                   DefaultBatchSize, {})

Script5ProductStep ==
    /\ stage = "Script5" /\ kind = "products" /\ pc = "loop"
    /\ IF LoopOver(idx, exports.products)
       THEN Flush("prices", "loop")
       ELSE Issue([ProductRequest(exports.products[idx]) EXCEPT
                       !.metadata = Spread(@, "migrated_at", IsoTimestamp)])

Script5ProductReturn ==
    /\ stage = "Script5" /\ kind = "products" /\ pc = "await"
    /\ \/ Created(FALSE)
       \/ RejectedRethrown("console")

Script5PriceStep ==
    /\ stage = "Script5" /\ kind = "prices" /\ pc = "loop"
    /\ IF LoopOver(idx, exports.prices)
       THEN Flush("prices", "done")
       ELSE LET oldPrice == exports.prices[idx]
                newProductId == Get(mem, "products", oldPrice.product) IN
            IF ~Truthy(newProductId)
            THEN Abort(Err(oldPrice.id, "dependency", "console"))
            ELSE Issue([PriceRequest(oldPrice, newProductId) EXCEPT
                            !.metadata = Spread(@, "migrated_at", IsoTimestamp)])

Script5PriceReturn ==
    /\ stage = "Script5" /\ kind = "prices" /\ pc = "await"
    /\ \/ Created(FALSE)
       \/ RejectedRethrown("console")

\* ------------------------------------------------ StripeMigrator.migrateCustomers
CustomerRequest(customer) ==
    [kind |-> "customers", old |-> customer.id,
     metadata |-> WithOldId(SourceMetadata(customer), OldIdKey("customers"), customer.id)]

StartLibCustomers ==
    /\ Idle /\ runs < MaxRuns
    /\ \E b \in 0..MaxBatch :
            IF MissingFile("LibCustomers") # ""
            THEN SetupFailed("LibCustomers", "customers", BatchSizeOf(b), {})
            ELSE Begin("LibCustomers", "customers", "loop", getMigrationMap,
                       BatchSizeOf(b), {})

LibCustomerStep ==
    /\ stage = "LibCustomers" /\ pc = "loop"
    /\ IF LoopOver(idx, exports.customers)
       THEN Flush("customers", "done")
       ELSE LET customer == exports.customers[idx] IN
            IF ~HasTable(mem, "customers")
            THEN Abort(Err(customer.id, "type", "throw"))
            ELSE IF AlreadyMigrated(mem, "customers", customer.id)
            THEN Skip
            ELSE Issue(CustomerRequest(customer))

LibCustomerReturn ==
    /\ stage = "LibCustomers" /\ pc = "await"
    /\ \/ Created(CheckpointDue(migratedCount + 1, batchSize))
       \/ Rejected("log")

\* ------------------------------------------------ script 6, migrateCustomers
StartScript6 ==
    /\ Idle /\ runs < MaxRuns
    /\ \E b \in 0..MaxBatch :
            IF MissingFile("Script6") # ""
            THEN SetupFailed("Script6", "customers", BatchSizeOf(b), {})
            ELSE Begin("Script6", "customers", "loop",
                       EnsureTable(file.map, "customers"), BatchSizeOf(b), {})

Script6Step ==
    /\ stage = "Script6" /\ pc = "loop"
    /\ IF LoopOver(idx, exports.customers)
       THEN Flush("customers", "done")
       ELSE LET oldCustomer == exports.customers[idx] IN
            IF AlreadyMigrated(mem, "customers", oldCustomer.id)
            THEN Skip
            ELSE Issue([CustomerRequest(oldCustomer) EXCEPT
                            !.metadata = Spread(@, "migration_date", IsoTimestamp)])

Script6Return ==
    /\ stage = "Script6" /\ pc = "await"
    /\ \/ Created(CheckpointDue(migratedCount + 1, batchSize))
       \/ Rejected("errors")

\* ------------------------------------------------ subscription requests
\* options.statusFilter || ['active', 'trialing']; the second choice is a
\* caller-given filter
DefaultStatusFilter == {"active", "trialing"}

\* the options argument of a subscription migration: not passed, passed without
\* statusFilter, passed with a statusFilter
NoArgument == [given |-> FALSE]
EmptyOptions == [given |-> TRUE]
OptionsArguments ==
    {NoArgument, EmptyOptions,
     [given |-> TRUE, statusFilter |-> {"active", "trialing", "past_due"}]}
HasStatusFilter(o) == "statusFilter" \in DOMAIN o
\* migrateSubscriptions(options = { statusFilter: ['active', 'trialing'] })
LibOptions(o) ==
    IF o.given THEN o ELSE [given |-> TRUE, statusFilter |-> DefaultStatusFilter]
\* migrateSubscriptions(options = {}); options.statusFilter || ['active', 'trialing']
Script7StatusFilter(o) ==
    IF HasStatusFilter(o) THEN o.statusFilter ELSE DefaultStatusFilter

\* subscriptions.filter(s => statusFilter.includes(s.status))
subsToMigrate == SelectSeq(exports.subscriptions, LAMBDA s : s.status \in statusFilter)

\* variant: `some` in place of `every`
isFreeSome(sub) == \E i \in 1..Len(sub.items) : sub.items[i].price.unit_amount = 0

\* sub.items.data.every(i => i.price.unit_amount === 0)
isFree(sub) == \A i \in 1..Len(sub.items) : sub.items[i].price.unit_amount = 0

\* sub.items.data.map(item => ({price: migrationMap.prices[item.price.id], ...}))
MapItems(m, sub) ==
    [i \in 1..Len(sub.items) |-> [price |-> Get(m, "prices", sub.items[i].price.id)]]
\* .filter(i => i.price)
ValidItems(items) == SelectSeq(items, LAMBDA i : Truthy(i.price))

\* variant: the trial end is carried whenever the source has one
TrialSet(trialEnd, now) == trialEnd # 0

\* sub.trial_end && sub.trial_end > now
TrialInFuture(trialEnd, now) == trialEnd # 0 /\ trialEnd > now

\* StripeMigrator.migrateSubscriptions, subData; now is the clock read for the
\* anchor rule, now2 the later read of the trial rule
LibSubData(sub, newCustomerId, items, now, now2) ==
    LET anchor == IF sub.billing_cycle_anchor > now
                  THEN Ts(sub.billing_cycle_anchor) ELSE Undefined
        cycleTrial == IF sub.billing_cycle_anchor > now THEN Undefined
                      ELSE IF sub.current_period_end > now
                      THEN Ts(sub.current_period_end) ELSE Undefined
    IN  [kind |-> "subscriptions", old |-> sub.id,
         metadata |-> WithOldId(SourceMetadata(sub), OldIdKey("subscriptions"), sub.id),
         customer |-> newCustomerId, items |-> items,
         billing_cycle_anchor |-> anchor,
         trial_end |-> IF isFree(sub) THEN TrialNow
                       ELSE IF TrialInFuture(sub.trial_end, now2)
                       THEN Ts(sub.trial_end) ELSE cycleTrial,
         payment_behavior |-> IF isFree(sub) THEN Undefined
                              ELSE <<"default_incomplete">>,
         now |-> now]

\* script 7, subscriptionData
Script7SubscriptionData(oldSub, newCustomerId, items, now) ==
    [kind |-> "subscriptions", old |-> oldSub.id,
     metadata |->
         Spread(Spread(WithOldId(SourceMetadata(oldSub), OldIdKey("subscriptions"),
                                 oldSub.id),
                       "migration_date", IsoTimestamp),
                "subscription_type", IF isFree(oldSub) THEN "free" ELSE "paid"),
     customer |-> newCustomerId, items |-> items,
     billing_cycle_anchor |-> Ts(oldSub.billing_cycle_anchor),
     trial_end |-> IF isFree(oldSub) THEN TrialNow
                   ELSE IF TrialInFuture(oldSub.trial_end, now)
                   THEN Ts(oldSub.trial_end) ELSE Undefined,
     payment_behavior |-> IF isFree(oldSub) THEN Undefined
                          ELSE <<"default_incomplete">>,
     now |-> now]

\* a loop step that reads the clock and issues a creation call
IssueAt(r, t) ==
    /\ pc' = "await" /\ req' = r /\ calls' = calls \cup {r.old} /\ clock' = t
    /\ UNCHANGED <<xprt, exports, file, target, stage, kind, idx, mem, migratedCount,
                   errors, batchSize, statusFilter, written, startFile, prev, runs,
                   faults>>

\* -------------------------------------------- StripeMigrator.migrateSubscriptions
StartLibSubscriptions ==
    /\ Idle /\ runs < MaxRuns
    /\ \E b \in ConfigBatchSizes : \E o \in OptionsArguments :
            LET options == LibOptions(o) IN
            IF MissingFile("LibSubscriptions") # ""
            THEN SetupFailed("LibSubscriptions", "subscriptions", BatchSizeOf(b), {})
            ELSE IF HasStatusFilter(options) \/ Len(exports.subscriptions) = 0
            THEN Begin("LibSubscriptions", "subscriptions", "loop", getMigrationMap,
                       BatchSizeOf(b),
                       IF HasStatusFilter(options) THEN options.statusFilter ELSE {})
            ELSE BeginWith("LibSubscriptions", "subscriptions", "aborted",
                           getMigrationMap, BatchSizeOf(b), {},
                           << Err("statusFilter", "type", "throw") >>)

\* variant: the length check is left out
PricesNeverMissing(items, sub) == FALSE

\* items.length !== sub.items.data.length
SomePricesNotMigrated(items, sub) == Len(items) # Len(sub.items)

LibSubscriptionStep ==
    /\ stage = "LibSubscriptions" /\ pc = "loop"
    /\ IF LoopOver(idx, subsToMigrate)
       THEN Flush("subscriptions", "done")
       ELSE LET sub == subsToMigrate[idx] IN
            IF ~HasTable(mem, "subscriptions")
            THEN Abort(Err(sub.id, "type", "throw"))
            ELSE IF AlreadyMigrated(mem, "subscriptions", sub.id)
            THEN Skip
            ELSE IF ~HasTable(mem, "customers")
            THEN Report(Err(sub.id, "type", "log"))
            ELSE LET newCustomerId == Get(mem, "customers", sub.customer)
                     items == ValidItems(MapItems(mem, sub)) IN
                 IF ~Truthy(newCustomerId)
                 THEN Skip
                 ELSE IF SomePricesNotMigrated(items, sub)
                 THEN Skip
                 ELSE \E now \in clock..MaxClock : \E now2 \in now..MaxClock :
                        IssueAt(LibSubData(sub, newCustomerId, items, now, now2), now2)

\* the catch of the loop body only calls this.log, the channel of the skip and
\* completion messages: the library keeps no errors array
LibSubscriptionReturn ==
    /\ stage = "LibSubscriptions" /\ pc = "await"
    /\ \/ Created(CheckpointDue(migratedCount + 1, SubscriptionCheckpointEvery))
       \/ Rejected("log")

\* ------------------------------------------------ script 7, migrateSubscriptions
StartScript7 ==
    /\ Idle /\ runs < MaxRuns
    /\ \E o \in OptionsArguments :
            LET f == Script7StatusFilter(o) IN
            IF MissingFile("Script7") # ""
            THEN SetupFailed("Script7", "subscriptions", DefaultBatchSize, f)
            ELSE Begin("Script7", "subscriptions", "loop",
                       EnsureTable(file.map, "subscriptions"), DefaultBatchSize, f)

\* some item's price has no mapping: the map callback throws
PriceMappingNotFound(m, oldSub) ==
    \E i \in 1..Len(oldSub.items) : ~Truthy(Get(m, "prices", oldSub.items[i].price.id))

Script7Step ==
    /\ stage = "Script7" /\ pc = "loop"
    /\ IF LoopOver(idx, subsToMigrate)
       THEN Flush("subscriptions", "done")
       ELSE LET oldSub == subsToMigrate[idx] IN
            IF AlreadyMigrated(mem, "subscriptions", oldSub.id)
            THEN Skip
            ELSE IF ~HasTable(mem, "customers")
            THEN Report(Err(oldSub.id, "type", "errors"))
            ELSE LET newCustomerId == Get(mem, "customers", oldSub.customer) IN
                 IF ~Truthy(newCustomerId)
                 THEN Report(Err(oldSub.id, "dependency", "errors"))
                 ELSE IF PriceMappingNotFound(mem, oldSub)
                 THEN Report(Err(oldSub.id, "dependency", "errors"))
                 ELSE \E now \in clock..MaxClock :
                        IssueAt(Script7SubscriptionData(oldSub, newCustomerId,
                                                        MapItems(mem, oldSub), now), now)

Script7Return ==
    /\ stage = "Script7" /\ pc = "await"
    /\ \/ Created(CheckpointDue(migratedCount + 1, SubscriptionCheckpointEvery))
       \/ Rejected("errors")

\* The counters of script 7, from what the run has done: freeCount and paidCount
\* are incremented when the request is built, just before the creation call, and
\* skippedCount when a subscription is found in the mapping the run loaded.
freeCount == Cardinality({id \in calls : isFree(CHOOSE u \in Range(subsToMigrate) : u.id = id)})
paidCount == Cardinality({id \in calls : ~isFree(CHOOSE u \in Range(subsToMigrate) : u.id = id)})
skippedCount ==
    Cardinality({j \in 1..Len(subsToMigrate) :
                    /\ j < idx
                    /\ HasTable(startFile.map, "subscriptions")
                    /\ Truthy(Get(startFile.map, "subscriptions", subsToMigrate[j].id))})
\* return { total, migrated, free, paid, skipped, errors }
Script7Result ==
    [total |-> Len(subsToMigrate), migrated |-> migratedCount, free |-> freeCount,
     paid |-> paidCount, skipped |-> skippedCount, errors |-> Len(errors)]

\* ------------------------------------------------ process termination
\* The operator (or the machine) ends the process; the in-memory map is lost.
\* A request that is outstanding may or may not have been carried out.
Kill ==
    /\ pc \in {"loop", "await"}
    /\ faults < MaxFaults /\ faults' = faults + 1
    /\ pc' = "killed" /\ req' = NoReq
    /\ kind' = "none" /\ idx' = 0 /\ migratedCount' = 0
    /\ mem' = [k \in {} |-> EmptyTable]
    /\ errors' = <<>> /\ calls' = {}
    /\ batchSize' = DefaultBatchSize
    /\ \/ UNCHANGED target
       \/ /\ pc = "await" /\ target[req.old] < MaxCopies
          /\ target' = [target EXCEPT ![req.old] = @ + 1]
    /\ UNCHANGED <<xprt, exports, file, clock, stage, statusFilter, written, startFile,
                   prev, runs>>

Next ==
    \/ StartLibProducts \/ LibProductStep \/ LibProductReturn
    \/ LibPriceStep \/ LibPriceReturn
    \/ StartScript5 \/ Script5ProductStep \/ Script5ProductReturn
    \/ Script5PriceStep \/ Script5PriceReturn
    \/ StartLibCustomers \/ LibCustomerStep \/ LibCustomerReturn
    \/ StartScript6 \/ Script6Step \/ Script6Return
    \/ StartLibSubscriptions \/ LibSubscriptionStep \/ LibSubscriptionReturn
    \/ StartScript7 \/ Script7Step \/ Script7Return
    \/ Kill

Spec == Init /\ [][Next]_vars


\* ================================================================= the exports
\* The export functions of the library (exportCustomers, exportProducts,
\* exportSubscriptions) and the scripts 1-export-customers, 2-export-products and
\* 3-export-subscriptions read the source account page by page and write one
\* dataset file when they have read it all.

\* the source account; prod_X is archived (active: false), its price is not
SourceAccount ==
    [products |-> << [id |-> "prod_A", active |-> TRUE],
                     [id |-> "prod_X", active |-> FALSE],
                     [id |-> "prod_B", active |-> TRUE] >>,
     prices |-> << [id |-> "price_1", product |-> "prod_A", unit_amount |-> 0,
                    active |-> TRUE],
                   [id |-> "price_3", product |-> "prod_X", unit_amount |-> 900,
                    active |-> TRUE],
                   [id |-> "price_2", product |-> "prod_B", unit_amount |-> 500,
                    active |-> TRUE] >>,
     customers |-> CustomersExport,
     subscriptions |-> SubscriptionsExport]

\* dataset files left by an export made before the account took its present content
StaleExports ==
    [products |-> << [id |-> "prod_0", active |-> TRUE] >>,
     prices |-> << [id |-> "price_0", product |-> "prod_0", unit_amount |-> 100,
                    active |-> TRUE] >>,
     customers |-> << [id |-> "cus_0"] >>,
     subscriptions |-> << >>]

Prefix(records, n) == SubSeq(records, 1, IF n < Len(records) THEN n ELSE Len(records))

ExportStages == {"LibExportCustomers", "Script1", "LibExportProducts", "Script2",
                 "LibExportSubscriptions", "Script3"}
CursorExportStages == {"LibExportCustomers", "Script1", "LibExportSubscriptions",
                       "Script3"}
ProductExportStages == {"LibExportProducts", "Script2"}

\* the dataset file the records of kind k are written to
ExportFile(k) ==
    CASE k \in {"products", "prices"} -> "products-export.json"
      [] k = "customers" -> "customers-export.json"
      [] OTHER -> "subscriptions-export.json"

\* how an export reports a failure: the library emits 'error', a script logs
ExportVia(s) == IF s \in {"LibExportCustomers", "LibExportProducts",
                          "LibExportSubscriptions"} THEN "emit" ELSE "console"

\* starting_after: undefined, or the identifier of a record
After(id) == << id >>

\* the records a list call of the source ranges over: products and prices are
\* listed with active: true
Listing(k) ==
    IF k \in {"products", "prices"}
    THEN SelectSeq(source[k], LAMBDA r : r.active)
    ELSE source[k]

\* the source's answer to list({limit, starting_after}): the records that follow
\* the cursor, at most one page of them, and whether more follow
ListPage(records, after, limit) ==
    LET from == IF after = Undefined THEN 0
                ELSE CHOOSE i \in 1..Len(records) : After(records[i].id) = after
        to == IF from + limit < Len(records) THEN from + limit ELSE Len(records)
    IN  [data |-> SubSeq(records, from + 1, to), has_more |-> to < Len(records)]

\* variant: the cursor is not passed on
ListRequestFirst(k, after) == [kind |-> "list", of |-> k, starting_after |-> Undefined]

ListRequest(k, after) == [kind |-> "list", of |-> k, starting_after |-> after]

InitExport ==
    /\ \E n \in 0..MaxRecords :
           source = [k \in Kinds |-> Prefix(SourceAccount[k], n)]
    /\ pageLen \in 1..MaxPage
    /\ \/ exports = NoExports /\ present = {}
       \/ exports = StaleExports /\ present = DatasetFiles
    /\ file = NoFile
    /\ target = TargetOf(NoFile)
    /\ clock = 0
    /\ stage = "none" /\ kind = "none" /\ idx = 0 /\ pc = "idle"
    /\ req = NoReq
    /\ mem = [k \in {} |-> EmptyTable]
    /\ migratedCount = 0
    /\ errors = <<>>
    /\ batchSize = DefaultBatchSize
    /\ statusFilter = {}
    /\ calls = {} /\ written = <<>>
    /\ startFile = file
    /\ prev = NoPrev
    /\ runs = 0
    /\ faults = 0
    /\ buf = <<>>
    /\ startingAfter = Undefined
    /\ hasMore = FALSE
    /\ NoReports /\ account = << >>

\* what no export touches
migration == <<file, target, clock, idx, mem, migratedCount, batchSize, statusFilter,
               calls, written, startFile, prev, source, pageLen, rprt, errorFiles>>

\* an export starts and sends its first list request, without a cursor
BeginExport(s, k) ==
    /\ Idle /\ runs < MaxRuns
    /\ stage' = s /\ kind' = k /\ pc' = "await"
    /\ req' = ListRequest(k, Undefined)
    /\ buf' = <<>> /\ hasMore' = TRUE /\ startingAfter' = Undefined
    /\ errors' = <<>> /\ runs' = runs + 1
    /\ UNCHANGED <<migration, exports, present, faults>>

\* variant: the catch writes the pages read so far
ListFailedPartial(via) ==
    /\ faults < MaxFaults /\ faults' = faults + 1
    /\ pc' = "aborted" /\ req' = NoReq
    /\ errors' = Append(errors, Err(kind, "list", via))
    /\ exports' = [exports EXCEPT ![kind] = buf]
    /\ present' = present \cup {ExportFile(kind)}
    /\ UNCHANGED <<migration, stage, kind, buf, startingAfter, hasMore, runs>>

\* a list request fails: the catch reports the error and rethrows
ListFailed(via) ==
    /\ faults < MaxFaults /\ faults' = faults + 1
    /\ pc' = "aborted" /\ req' = NoReq
    /\ errors' = Append(errors, Err(kind, "list", via))
    /\ UNCHANGED <<migration, exports, present, stage, kind, buf, startingAfter,
                   hasMore, runs>>

\* exportCustomers, exportSubscriptions: the page is appended; with has_more the
\* next page is requested after the last record of this one, else the file is
\* written
PageReceived ==
    LET response == ListPage(Listing(kind), req.starting_after, pageLen)
        all == buf \o response.data
        last == After(response.data[Len(response.data)].id) IN
    /\ buf' = all /\ hasMore' = response.has_more
    /\ IF response.has_more
       THEN /\ startingAfter' = last
            /\ req' = ListRequest(kind, last)
            /\ pc' = "await"
            /\ UNCHANGED <<exports, present>>
       ELSE /\ exports' = [exports EXCEPT ![kind] = all]
            /\ present' = present \cup {ExportFile(kind)}
            /\ pc' = "done" /\ req' = NoReq
            /\ UNCHANGED startingAfter
    /\ UNCHANGED <<migration, stage, kind, errors, runs, faults>>

StartLibExportCustomers == BeginExport("LibExportCustomers", "customers")
StartScript1 == BeginExport("Script1", "customers")
StartLibExportSubscriptions == BeginExport("LibExportSubscriptions", "subscriptions")
StartScript3 == BeginExport("Script3", "subscriptions")

ExportPageReturn ==
    /\ stage \in CursorExportStages /\ pc = "await"
    /\ \/ PageReceived
       \/ ListFailed(ExportVia(stage))

\* exportProducts: one list request for the products, one for the prices, then the
\* file is written
StartLibExportProducts == BeginExport("LibExportProducts", "products")
StartScript2 == BeginExport("Script2", "products")

ExportProductsReturn ==
    /\ stage \in ProductExportStages /\ kind = "products" /\ pc = "await"
    /\ \/ LET products == ListPage(Listing("products"), Undefined, pageLen) IN
          /\ buf' = products.data
          /\ kind' = "prices" /\ req' = ListRequest("prices", Undefined)
          /\ UNCHANGED <<migration, exports, present, stage, pc, errors, startingAfter,
                         hasMore, runs, faults>>
       \/ ListFailed(ExportVia(stage))

ExportPricesReturn ==
    /\ stage \in ProductExportStages /\ kind = "prices" /\ pc = "await"
    /\ \/ LET prices == ListPage(Listing("prices"), Undefined, pageLen) IN
          /\ exports' = [exports EXCEPT !["products"] = buf, !["prices"] = prices.data]
          /\ present' = present \cup {ExportFile("products")}
          /\ pc' = "done" /\ req' = NoReq
          /\ UNCHANGED <<migration, stage, kind, errors, buf, startingAfter, hasMore,
                         runs, faults>>
       \/ ListFailed(ExportVia(stage))

\* the process is ended while a list request is outstanding
KillExport ==
    /\ stage \in ExportStages /\ pc = "await"
    /\ faults < MaxFaults /\ faults' = faults + 1
    /\ pc' = "killed" /\ req' = NoReq
    /\ buf' = <<>> /\ startingAfter' = Undefined /\ hasMore' = FALSE
    /\ UNCHANGED <<migration, exports, present, stage, kind, errors, runs>>

NextExport ==
    \/ StartLibExportCustomers \/ StartScript1
    \/ StartLibExportSubscriptions \/ StartScript3
    \/ ExportPageReturn
    \/ StartLibExportProducts \/ StartScript2
    \/ ExportProductsReturn \/ ExportPricesReturn
    \/ KillExport

SpecExport == InitExport /\ [][NextExport]_vars

\* `await oldStripe.<kind>.list(params)` completes: an outstanding list request
\* is answered or fails
SpecExportFair ==
    /\ InitExport /\ [][NextExport]_vars
    /\ WF_vars(ExportPageReturn) /\ WF_vars(ExportProductsReturn) /\ WF_vars(ExportPricesReturn)

\* ============================================================ reporting stages
\* script 8 (payment link generator) and script 9 (payment status monitor)
ReportStages == {"Script8", "Script9"}

\* unit_amount: null of a tiered price, as a number no amount takes
NullAmount == -1

\* the subscription dataset of an account that also sells a tiered plan and has
\* a second paying customer
TieredSubscriptionsExport ==
    SubscriptionsExport \o
        << [id |-> "sub_4", customer |-> "cus_3", status |-> "active",
            items |-> << [price |-> [id |-> "price_4", unit_amount |-> NullAmount]] >>,
            billing_cycle_anchor |-> 1, current_period_end |-> 2, trial_end |-> 0],
           [id |-> "sub_5", customer |-> "cus_1", status |-> "active",
            items |-> << [price |-> [id |-> "price_2", unit_amount |-> 500]] >>,
            billing_cycle_anchor |-> 1, current_period_end |-> 2, trial_end |-> 0] >>

\* the prices of that account: the tiered plan has no flat unit amount
TieredPricesExport ==
    PricesExportA \o
        << [id |-> "price_4", product |-> "prod_B", unit_amount |-> NullAmount] >>

\* The mapping files the earlier stages can leave behind.
\* scripts 5 and 6 have run; script 5 alone has run
FileAfterScript6 ==
    saveMigrationMap([k \in {"products", "prices", "customers"} |->
        CASE k = "products" -> FullTable(ProductsExport)
          [] k = "prices" -> FullTable(PricesExportA)
          [] OTHER -> FullTable(CustomersExport)])
FileAfterScript5 ==
    saveMigrationMap([k \in {"products", "prices"} |->
        IF k = "products" THEN FullTable(ProductsExport) ELSE FullTable(PricesExportA)])
\* every stage has run over the datasets; the creations of the subscriptions in
\* `failed` failed. A subscription is created only when its status is eligible
\* and its customer and all its prices are mapped.
FileMigrated(prices, subs, failed) ==
    saveMigrationMap([k \in Kinds |->
        CASE k = "products" -> FullTable(ProductsExport)
          [] k = "prices" -> FullTable(prices)
          [] k = "customers" -> FullTable(CustomersExport)
          [] OTHER ->
              PartTable(SelectSeq(subs, LAMBDA s :
                            /\ s.status \in DefaultStatusFilter
                            /\ s.customer \in SeqIds(CustomersExport)
                            /\ \A i \in 1..Len(s.items) :
                                   s.items[i].price.id \in SeqIds(prices)),
                        failed)])

\* a subscription as the target account lists it
TargetSub(id, status, amounts) ==
    [id |-> id, status |-> status,
     items |-> [i \in 1..Len(amounts) |-> [price |-> [unit_amount |-> amounts[i]]]]]

\* Two target accounts, by new customer identifier.
AccountA ==
    [c \in {NewId(CustomersExport[i].id, 1) : i \in 1..Len(CustomersExport)} |->
        CASE c = NewId("cus_1", 1) ->
                [hasPaymentMethod |-> FALSE,
                 subscriptions |-> << TargetSub("new_1", "active", << 500 >>),
                                      TargetSub("new_2", "active", << 0, 500 >>),
                                      TargetSub("new_3", "active", << 0 >>) >>]
          [] c = NewId("cus_2", 1) ->
                [hasPaymentMethod |-> TRUE,
                 subscriptions |-> << TargetSub("new_4", "incomplete", << 500 >>) >>]
          [] OTHER ->
                [hasPaymentMethod |-> FALSE,
                 subscriptions |-> << TargetSub("new_5", "active", << 0 >>) >>]]
AccountB ==
    [c \in {NewId(CustomersExport[i].id, 1) : i \in 1..Len(CustomersExport)} |->
        CASE c = NewId("cus_1", 1) ->
                [hasPaymentMethod |-> TRUE,
                 subscriptions |-> << TargetSub("new_1", "active", << 500 >>) >>]
          [] c = NewId("cus_2", 1) ->
                [hasPaymentMethod |-> FALSE,
                 subscriptions |-> << TargetSub("new_2", "active", << 500 >>),
                                      TargetSub("new_3", "canceled", << 500 >>) >>]
          [] OTHER ->
                [hasPaymentMethod |-> FALSE, subscriptions |-> << >>]]

InitReport ==
    /\ exports \in { [products |-> ProductsExport, prices |-> d[1],
                      customers |-> CustomersExport, subscriptions |-> d[2]]
                     : d \in { <<PricesExportA, SubscriptionsExport>>,
                               <<PricesExportA, TieredSubscriptionsExport>>,
                               <<TieredPricesExport, TieredSubscriptionsExport>> } }
    /\ present = DatasetFiles
    /\ file \in {NoFile, FilePartial, FileAfterScript5, FileAfterScript6,
                 FileMigrated(exports.prices, exports.subscriptions, {}),
                 FileMigrated(exports.prices, exports.subscriptions, {"sub_2"})}
    /\ account \in {AccountA, AccountB}
    /\ target = TargetOf(file)
    /\ clock = 0
    /\ stage = "none" /\ kind = "none" /\ idx = 0 /\ pc = "idle"
    /\ req = NoReq
    /\ mem = [k \in {} |-> EmptyTable]
    /\ migratedCount = 0
    /\ errors = <<>>
    /\ batchSize = DefaultBatchSize
    /\ statusFilter = {}
    /\ calls = {} /\ written = <<>>
    /\ startFile = file
    /\ prev = NoPrev
    /\ runs = 0
    /\ faults = 0
    /\ source = exports
    /\ pageLen = 1
    /\ NoReports
    /\ buf = <<>>
    /\ startingAfter = Undefined
    /\ hasMore = FALSE

\* what neither reporting stage touches
settled == <<exports, file, target, clock, batchSize, statusFilter, source, pageLen,
             present, buf, startingAfter, hasMore, account, dbst>>

\* a reporting run starts with empty locals
BeginReport(s, k, p, m, e, st) ==
    /\ Idle /\ runs < MaxRuns
    /\ stage' = s /\ kind' = k /\ idx' = 1 /\ pc' = p /\ req' = NoReq
    /\ mem' = m /\ migratedCount' = 0 /\ errors' = e
    /\ links' = << >> /\ stats' = st
    /\ calls' = {} /\ written' = <<>> /\ startFile' = file
    /\ prev' = [stage |-> stage, end |-> pc, failed |-> FailedIds,
                created |-> {written[i] : i \in 1..Len(written)},
                statusFilter |-> statusFilter]
    /\ runs' = runs + 1
    /\ UNCHANGED <<settled, errorFiles, linksFile, sessions, reportFile, faults>>

\* fs.readFileSync throws: the run ends before its loop
ReportSetupFailed(s, k) ==
    BeginReport(s, k, "aborted", [x \in {} |-> EmptyTable],
                << Err(MissingFile(s), "setup", "throw") >>, NoStats)

\* ------------------------------------------------------- generatePaymentLinks
isPaid(sub) == \E i \in 1..Len(sub.items) : sub.items[i].price.unit_amount > 0
isActive(sub) == sub.status = "active" \/ sub.status = "trialing"
paidSubscriptions == SelectSeq(exports.subscriptions, LAMBDA sub : isPaid(sub) /\ isActive(sub))

SessionRequest(oldSub, newCustomerId, newSubId) ==
    [kind |-> "sessions", old |-> oldSub.id, customer |-> newCustomerId,
     metadata |-> [old_customer_id |-> oldSub.customer,
                   old_subscription_id |-> oldSub.id,
                   new_subscription_id |-> newSubId]]

\* the identifier of the n-th checkout session the target account creates
SessionId(n) == <<"cs", n>>

PaymentLink(r, session) ==
    [oldCustomerId |-> r.metadata.old_customer_id,
     newCustomerId |-> r.customer,
     oldSubscriptionId |-> r.metadata.old_subscription_id,
     newSubscriptionId |-> r.metadata.new_subscription_id,
     sessionId |-> session]

StartScript8 ==
    IF MissingFile("Script8") # ""
    THEN ReportSetupFailed("Script8", "links")
    ELSE BeginReport("Script8", "links", "loop", file.map, <<>>, NoStats)

\* variant: the links of the run are added to those already in the file
LinksAppended ==
    /\ linksFile' = [exists |-> TRUE, links |-> linksFile.links \o links]
    /\ pc' = "done"
    /\ errorFiles' = ErrorsSaved
    /\ UNCHANGED <<settled, stage, kind, idx, req, mem, migratedCount, errors, hist,
                   links, sessions, stats, reportFile>>

\* fs.writeFileSync(linksPath, JSON.stringify(paymentLinks))
LinksWritten ==
    /\ linksFile' = [exists |-> TRUE, links |-> links]
    /\ pc' = "done"
    /\ errorFiles' = ErrorsSaved
    /\ UNCHANGED <<settled, stage, kind, idx, req, mem, migratedCount, errors, hist,
                   links, sessions, stats, reportFile>>

Script8Step ==
    /\ stage = "Script8" /\ pc = "loop"
    /\ IF LoopOver(idx, paidSubscriptions) THEN LinksWritten
       ELSE LET oldSub == paidSubscriptions[idx] IN
            IF ~HasTable(mem, "customers") \/ ~HasTable(mem, "subscriptions")
            THEN Report(Err(oldSub.id, "type", "errors"))
            ELSE LET newCustomerId == Get(mem, "customers", oldSub.customer)
                     newSubId == Get(mem, "subscriptions", oldSub.id) IN
                 IF ~Truthy(newCustomerId)
                 THEN Report(Err(oldSub.id, "dependency", "errors"))
                 ELSE Issue(SessionRequest(oldSub, newCustomerId, newSubId))

\* variant: the session is also recorded in the mapping file
SessionCreatedMapped ==
    /\ sessions' = sessions + 1
    /\ links' = Append(links, PaymentLink(req, SessionId(sessions + 1)))
    /\ migratedCount' = migratedCount + 1
    /\ written' = Append(written, req.old)
    /\ file' = saveMigrationMap(Put(mem, "subscriptions", req.old, SessionId(sessions + 1)))
    /\ Continue
    /\ UNCHANGED <<exports, target, clock, batchSize, statusFilter, source, pageLen,
                   present, buf, startingAfter, hasMore, account, errorFiles,
                   stage, kind, mem, errors, calls, startFile, prev, runs, faults,
                   linksFile, stats, reportFile, dbst>>

\* the target created the checkout session: the link is recorded
SessionCreated ==
    /\ sessions' = sessions + 1
    /\ links' = Append(links, PaymentLink(req, SessionId(sessions + 1)))
    /\ migratedCount' = migratedCount + 1
    /\ written' = Append(written, req.old)
    /\ Continue
    /\ UNCHANGED <<settled, errorFiles, stage, kind, mem, errors, calls, startFile, prev, runs, faults,
                   linksFile, stats, reportFile>>

Script8Return ==
    /\ stage = "Script8" /\ pc = "await"
    /\ \/ SessionCreated
       \/ Rejected("errors")

\* ------------------------------------------------------- monitorPaymentStatus
\* Object.values(migrationMap.customers), with the old identifier of each entry.
\* The order of the keys of the file is not part of a table: the entries are a
\* set here, and the scan takes them in any order.
newCustomerIds(m) ==
    {[old |-> o, new |-> m["customers"][o]] : o \in DOMAIN m["customers"]}

StartScript9 ==
    IF MissingFile("Script9") # ""
    THEN ReportSetupFailed("Script9", "monitor")
    ELSE IF ~HasTable(file.map, "customers")
    THEN BeginReport("Script9", "monitor", "aborted", file.map,
                     << Err("customers", "type", "throw") >>, NoStats)
    ELSE BeginReport("Script9", "monitor", "loop", file.map, <<>>,
                     [NoStats EXCEPT !.total = Cardinality(newCustomerIds(file.map))])

RetrieveRequest(c) == [kind |-> "retrieve", old |-> c.old, customer |-> c.new]
ListSubscriptionsRequest(r, hasPaymentMethod) ==
    [kind |-> "list", old |-> r.old, customer |-> r.customer,
     hasPaymentMethod |-> hasPaymentMethod]

\* fs.writeFileSync(reportPath, JSON.stringify(report))
ReportWritten ==
    /\ reportFile' = [exists |-> TRUE, summary |-> stats]
    /\ pc' = "done"
    /\ UNCHANGED <<settled, errorFiles, stage, kind, idx, req, mem, migratedCount, errors, hist,
                   links, linksFile, sessions, stats>>

Script9Step ==
    /\ stage = "Script9" /\ pc = "loop"
    /\ IF idx > Cardinality(newCustomerIds(mem)) THEN ReportWritten
       ELSE \E c \in newCustomerIds(mem) :
                c.old \notin calls /\ Issue(RetrieveRequest(c))

\* const isFree = sub.items.data.every(item => item.price.unit_amount === 0)
isFreeInTarget(sub) == \A i \in 1..Len(sub.items) : sub.items[i].price.unit_amount = 0

\* the body of `for (const sub of subscriptions.data)`, over the whole page
Counted(st, subs, hasPaymentMethod, newCustomerId) ==
    LET active == SelectSeq(subs, LAMBDA s : s.status = "active")
        free == SelectSeq(active, isFreeInTarget)
        paid == SelectSeq(active, LAMBDA s : ~isFreeInTarget(s))
        incomplete == SelectSeq(subs, LAMBDA s : s.status = "incomplete")
        needing == IF hasPaymentMethod THEN << >>
                   ELSE [i \in 1..Len(paid) |->
                            [customerId |-> newCustomerId, subscriptionId |-> paid[i].id]] IN
    [st EXCEPT !.activeSubscriptions = @ + Len(active),
               !.freeSubscriptions = @ + Len(free),
               !.paidSubscriptions = @ + Len(paid),
               !.incompleteSubscriptions = @ + Len(incomplete),
               !.customersNeedingAction = @ \o needing]

\* variant: a failed lookup ends the scan
LookupFailedFatal(why) ==
    /\ faults < MaxFaults /\ faults' = faults + 1
    /\ errors' = Append(errors, Err(req.old, why, "console"))
    /\ pc' = "aborted" /\ req' = NoReq
    /\ UNCHANGED <<settled, errorFiles, stage, kind, idx, mem, migratedCount, calls, written, startFile,
                   prev, runs, links, linksFile, sessions, stats, reportFile>>

\* a lookup failed: the catch logs the error and the scan goes on
LookupFailed(why) ==
    /\ faults < MaxFaults /\ faults' = faults + 1
    /\ errors' = Append(errors, Err(req.old, why, "console"))
    /\ Continue
    /\ UNCHANGED <<settled, errorFiles, stage, kind, mem, migratedCount, calls, written, startFile,
                   prev, runs, links, linksFile, sessions, stats, reportFile>>

\* newStripe.customers.retrieve returned: the customer is counted, the listing
\* of its subscriptions is requested
Retrieved ==
    LET hasPaymentMethod == account[req.customer].hasPaymentMethod IN
    /\ req.customer \in DOMAIN account
    /\ stats' = IF hasPaymentMethod
                THEN [stats EXCEPT !.withPaymentMethod = @ + 1]
                ELSE [stats EXCEPT !.withoutPaymentMethod = @ + 1]
    /\ req' = ListSubscriptionsRequest(req, hasPaymentMethod)
    /\ UNCHANGED <<settled, errorFiles, stage, kind, idx, pc, mem, migratedCount, errors, hist,
                   links, linksFile, sessions, reportFile>>

Script9RetrieveReturn ==
    /\ stage = "Script9" /\ pc = "await" /\ req.kind = "retrieve"
    /\ \/ Retrieved
       \/ LookupFailed("retrieve")

\* newStripe.subscriptions.list returned
Listed ==
    /\ stats' = Counted(stats, account[req.customer].subscriptions,
                        req.hasPaymentMethod, req.customer)
    /\ written' = Append(written, req.old)
    /\ Continue
    /\ UNCHANGED <<settled, errorFiles, stage, kind, mem, migratedCount, errors, calls, startFile,
                   prev, runs, faults, links, linksFile, sessions, reportFile>>

Script9ListReturn ==
    /\ stage = "Script9" /\ pc = "await" /\ req.kind = "list"
    /\ \/ Listed
       \/ LookupFailed("list")

\* the process is killed while a call is outstanding; a session request in
\* flight may or may not have been served
KillReport ==
    /\ stage \in ReportStages /\ pc = "await"
    /\ faults < MaxFaults /\ faults' = faults + 1
    /\ pc' = "killed" /\ req' = NoReq
    /\ \/ UNCHANGED sessions
       \/ stage = "Script8" /\ sessions' = sessions + 1
    /\ UNCHANGED <<settled, errorFiles, stage, kind, idx, mem, migratedCount, errors, calls, written,
                   startFile, prev, runs, links, linksFile, stats, reportFile>>

NextReport ==
    \/ StartScript8 \/ Script8Step \/ Script8Return
    \/ StartScript9 \/ Script9Step \/ Script9RetrieveReturn \/ Script9ListReturn
    \/ KillReport

SpecReport == InitReport /\ [][NextReport]_vars

\* ====================================================== re-running the stages
\* The operator runs the migration stages again and again in dependency order
\* (products and prices, customers, subscriptions) over unchanged datasets, from
\* no mapping file, with the default status filter; no process is killed.
InitConverge ==
    /\ Init
    /\ exports = [products |-> ProductsExport, prices |-> PricesExportA,
                  customers |-> CustomersExport, subscriptions |-> SubscriptionsExport]
    /\ file = NoFile

\* the kind of stage that is due after the stage that ran last: `a && b && c`
\* stops at a stage that exits with an error, and the command run again starts
\* with the products
TurnOf ==
    CASE pc = "aborted" -> "products"
      [] stage \in {"LibProducts", "Script5"} -> "customers"
      [] stage \in {"LibCustomers", "Script6"} -> "subscriptions"
      [] OTHER -> "products"

RerunProducts ==
    /\ TurnOf = "products"
    /\ \/ StartLibProducts
       \/ StartScript5
RerunCustomers ==
    /\ TurnOf = "customers"
    /\ \/ StartLibCustomers
       \/ StartScript6
RerunSubscriptions ==
    /\ TurnOf = "subscriptions"
    /\ \/ StartLibSubscriptions
       \/ StartScript7
    /\ statusFilter' = DefaultStatusFilter

\* the operator goes on: the count of runs starts again
NextRound ==
    /\ Idle /\ runs = MaxRuns
    /\ runs' = 0
    /\ UNCHANGED <<xprt, env, proc, calls, written, startFile, prev, faults>>

NextConverge ==
    \/ RerunProducts \/ LibProductStep \/ LibProductReturn
    \/ LibPriceStep \/ LibPriceReturn
    \/ Script5ProductStep \/ Script5ProductReturn
    \/ Script5PriceStep \/ Script5PriceReturn
    \/ RerunCustomers \/ LibCustomerStep \/ LibCustomerReturn
    \/ Script6Step \/ Script6Return
    \/ RerunSubscriptions \/ LibSubscriptionStep \/ LibSubscriptionReturn
    \/ Script7Step \/ Script7Return
    \/ NextRound

\* a process that can take a step takes one: a call returns, a loop goes on, the
\* operator starts the stage that is due
SpecConverge == InitConverge /\ [][NextConverge]_vars /\ WF_vars(NextConverge)

\* ============================================== the database column rewrite
\* config.tables: the batches, in the order runDatabaseUpdate runs them, with
\* the table of the migration map each takes its identifiers from
Batches ==
    << [tableName |-> "users", columnName |-> "customerId", mapping |-> "customers"],
       [tableName |-> "users", columnName |-> "subscriptionId", mapping |-> "subscriptions"],
       [tableName |-> "users", columnName |-> "priceId", mapping |-> "prices"],
       [tableName |-> "plans", columnName |-> "productId", mapping |-> "products"],
       [tableName |-> "plans", columnName |-> "planId", mapping |-> "prices"] >>

\* a column value that holds the source identifier `oldId`; a target identifier
\* is stored as it stands in the map, null as Undefined
Stored(oldId) == << oldId >>

\* Two application databases. The third user of the first carries identifiers
\* the migration never saw.
DatabaseA ==
    [users |-> << [customerId |-> Stored("cus_1"), subscriptionId |-> Stored("sub_1"),
                   priceId |-> Stored("price_1")],
                  [customerId |-> Stored("cus_2"), subscriptionId |-> Stored("sub_2"),
                   priceId |-> Stored("price_2")],
                  [customerId |-> Stored("cus_9"), subscriptionId |-> Undefined,
                   priceId |-> Stored("price_1")] >>,
     plans |-> << [productId |-> Stored("prod_A"), planId |-> Stored("price_1")],
                  [productId |-> Stored("prod_B"), planId |-> Stored("price_2")] >>]
DatabaseB ==
    [users |-> << [customerId |-> Stored("cus_3"), subscriptionId |-> Stored("sub_3"),
                   priceId |-> Stored("price_2")] >>,
     plans |-> << [productId |-> Stored("prod_B"), planId |-> Stored("price_9")] >>]

\* performBatchUpdate(tableName, columnName, mapping): one UPDATE per entry with a
\* new identifier; Object.entries throws when the map has no such table. The
\* order of the keys of the file is not part of a table: the statements of a
\* batch are a set here, and the batch runs them in any order.
BatchStatements(m, b) ==
    IF ~HasTable(m, b.mapping) THEN { [kind |-> "throw"] }
    ELSE { [kind |-> "update", tableName |-> b.tableName, columnName |-> b.columnName,
            oldId |-> o, newId |-> m[b.mapping][o]]
           : o \in {x \in DOMAIN m[b.mapping] : Truthy(m[b.mapping][x])} }

\* the batches the run goes through, in order; a batch without entries returns
\* at once
Statements(m) ==
    SelectSeq([i \in 1..Len(Batches) |-> BatchStatements(m, Batches[i])],
              LAMBDA batch : batch # {})

\* UPDATE "<tableName>" SET "<columnName>" = :newId WHERE "<columnName>" = :oldId
Update(d, q) ==
    [d EXCEPT ![q.tableName] =
        [i \in DOMAIN @ |->
            IF @[i][q.columnName] = Stored(q.oldId)
            THEN [@[i] EXCEPT ![q.columnName] = q.newId] ELSE @[i]]]

InitDb ==
    /\ exports = [products |-> ProductsExport, prices |-> PricesExportA,
                  customers |-> CustomersExport, subscriptions |-> SubscriptionsExport]
    /\ present = DatasetFiles
    /\ file \in {NoFile, FilePartial, FileAfterScript5, FileAfterScript6,
                 FileMigrated(exports.prices, exports.subscriptions, {}),
                 FileMigrated(exports.prices, exports.subscriptions, {"sub_2"})}
    /\ target = TargetOf(file)
    /\ clock = 0
    /\ stage = "none" /\ kind = "none" /\ idx = 0 /\ pc = "idle"
    /\ req = NoReq
    /\ mem = [k \in {} |-> EmptyTable]
    /\ migratedCount = 0
    /\ errors = <<>>
    /\ batchSize = DefaultBatchSize
    /\ statusFilter = {}
    /\ calls = {} /\ written = <<>>
    /\ startFile = file
    /\ prev = NoPrev
    /\ runs = 0
    /\ faults = 0
    /\ source = exports
    /\ pageLen = 1
    /\ buf = <<>>
    /\ startingAfter = Undefined
    /\ hasMore = FALSE
    /\ links = << >> /\ linksFile = NoLinksFile /\ sessions = 0
    /\ stats = NoStats /\ reportFile = NoReportFile
    /\ account = AccountA
    /\ errorFiles = NoErrorFiles
    /\ db \in {DatabaseA, DatabaseB} /\ work = db
    /\ txn = "none" /\ conn = "none" /\ plan = << >> /\ dbpc = "idle"

\* what the database update leaves alone
apart == <<env, proc, hist, source, pageLen, present, buf, startingAfter, hasMore,
           links, linksFile, sessions, stats, account, reportFile, errorFiles>>

\* runDatabaseUpdate(): the migration map is loaded, or the process exits
StartDatabaseUpdate ==
    /\ dbpc = "idle"
    /\ IF file.exists
       THEN dbpc' = "connect" /\ plan' = Statements(file.map)
       ELSE dbpc' = "exited" /\ UNCHANGED plan
    /\ UNCHANGED <<apart, db, work, txn, conn>>

\* await sequelize.authenticate(): connected, or the process exits
Authenticate ==
    /\ dbpc = "connect"
    /\ \/ conn' = "open" /\ dbpc' = "begin"
       \/ dbpc' = "exited" /\ UNCHANGED conn
    /\ UNCHANGED <<apart, db, work, txn, plan>>

\* await sequelize.transaction(), before the try block: a rejection is not caught
BeginTransaction ==
    /\ dbpc = "begin"
    /\ \/ txn' = "open" /\ work' = db /\ dbpc' = "update"
       \/ dbpc' = "crashed" /\ UNCHANGED <<txn, work>>
    /\ UNCHANGED <<apart, db, conn, plan>>

\* variant: the statement runs outside the transaction
RunQueryDirectly(q) ==
    /\ db' = Update(db, q) /\ work' = Update(work, q)

\* sequelize.query(query, {replacements, type, transaction})
RunQuery(q) ==
    /\ work' = Update(work, q) /\ UNCHANGED db

\* a statement of the batch that is due: it runs, or it throws and the catch
\* block calls transaction.rollback()
Statement ==
    /\ dbpc = "update" /\ plan # << >>
    /\ \/ \E q \in Head(plan) :
             /\ q.kind = "update"
             /\ RunQuery(q)
             /\ plan' = IF Head(plan) = {q} THEN Tail(plan)
                        ELSE << Head(plan) \ {q} >> \o Tail(plan)
             /\ UNCHANGED dbpc
       \/ dbpc' = "rollback" /\ UNCHANGED <<db, work, plan>>
    /\ UNCHANGED <<apart, txn, conn>>

\* await transaction.commit() returns. A commit that fails leaves the
\* transaction finished: the rollback of the catch block is refused, and the
\* error is pending while the finally block closes the connection.
Commit ==
    /\ dbpc = "update" /\ plan = << >>
    /\ txn' = "commit"
    /\ \/ db' = work /\ dbpc' = "close"
       \/ dbpc' = "closeThrown" /\ UNCHANGED db
    /\ UNCHANGED <<apart, work, conn, plan>>

\* await transaction.rollback() returns: the statements of the transaction are
\* undone; a rollback that is rejected is pending while the finally block runs
RolledBack ==
    /\ dbpc = "rollback"
    /\ txn' = "rollback" /\ work' = db
    /\ dbpc' \in {"close", "closeThrown"}
    /\ UNCHANGED <<apart, db, conn, plan>>

\* finally: await sequelize.close() returns. The promise of runDatabaseUpdate()
\* has no handler: a pending error, or a rejected close, ends the process with
\* an unhandled rejection.
Close ==
    /\ dbpc \in {"close", "closeThrown"}
    /\ \/ /\ conn' = "closed"
          /\ dbpc' = IF dbpc = "closeThrown" THEN "crashed"
                     ELSE IF txn = "commit" THEN "done" ELSE "rolledback"
       \/ dbpc' = "crashed" /\ UNCHANGED conn
    /\ UNCHANGED <<apart, db, work, txn, plan>>

\* the exit code of the process that has ended by itself
ExitCode == IF dbpc \in {"done", "rolledback"} THEN 0 ELSE 1

\* the process is terminated while it awaits a call: the server drops the open
\* transaction, unless the commit it was asked for has been served already
KillDatabaseUpdate ==
    /\ dbpc \in {"connect", "begin", "update", "rollback", "close", "closeThrown"}
    /\ dbpc' = "killed"
    /\ \/ UNCHANGED db
       \/ dbpc = "update" /\ plan = << >> /\ db' = work
    /\ work' = db'
    /\ UNCHANGED <<apart, txn, conn, plan>>

NextDb ==
    \/ StartDatabaseUpdate \/ Authenticate \/ BeginTransaction
    \/ Statement \/ Commit \/ RolledBack \/ Close \/ KillDatabaseUpdate

SpecDb == InitDb /\ [][NextDb]_vars

\* ===================================================================== claims
WrittenIds == Range(written)
Running == pc \in {"loop", "await"}
SubStages == {"LibSubscriptions", "Script7"}
CustomerStages == {"LibCustomers", "Script6"}
ProductStages == {"LibProducts", "Script5"}

\* the identifiers of the datasets, by table
DatasetIds ==
    [products |-> SeqIds(ProductsExport), prices |-> SeqIds(PricesExportB),
     customers |-> SeqIds(CustomersExport)]
TableOf(id) ==
    CASE id \in DatasetIds.products -> "products"
      [] id \in DatasetIds.prices -> "prices"
      [] id \in DatasetIds.customers -> "customers"
      [] OTHER -> "subscriptions"
\* the records of the datasets, by identifier
PriceById ==
    [id \in SeqIds(PricesExportB) |-> CHOOSE p \in Range(PricesExportB) : p.id = id]
SubById ==
    [id \in SeqIds(SubscriptionsExport) |->
        CHOOSE u \in Range(SubscriptionsExport) : u.id = id]
PriceOf(id) == PriceById[id]
SubOf(id) == SubById[id]

\* the identifier that table k of map m holds for id, if any
Entry(m, k, id) == IF k \in DOMAIN m THEN Get(m, k, id) ELSE Undefined

\* every reference of the record is present in map m
DepsMapped(m, id) ==
    CASE TableOf(id) = "prices" -> Truthy(Entry(m, "products", PriceOf(id).product))
      [] TableOf(id) = "subscriptions" ->
            /\ Truthy(Entry(m, "customers", SubOf(id).customer))
            /\ \A i \in 1..Len(SubOf(id).items) :
                   Truthy(Entry(m, "prices", SubOf(id).items[i].price.id))
      [] OTHER -> TRUE

\* the records the running stage walks over
StageIds ==
    CASE stage \in ProductStages -> SeqIds(exports.products) \cup SeqIds(exports.prices)
      [] stage \in CustomerStages -> SeqIds(exports.customers)
      [] stage \in SubStages -> SeqIds(subsToMigrate)
      [] OTHER -> {}

\* C1 (as claimed). Resumability: in the run that follows a terminated run of the
\* same stage, no creation call is issued for a record that the terminated run
\* created, and a run that completes has issued a call for every other record that
\* is not in the target yet and whose references are mapped.
C1_Resumability ==
    (prev.end = "killed" /\ prev.stage = stage /\ prev.statusFilter = statusFilter) =>
        /\ pc = "await" => req.old \notin prev.created
        /\ pc = "done" =>
              \A id \in StageIds \ prev.created :
                  target[id] >= 1 \/ id \in calls \/ ~DepsMapped(mem, id)

\* C2 (as claimed). Idempotency: a run of a stage that follows a complete run of the
\* same stage, with the same options, in which no creation failed issues no creation
\* call and leaves the mapping file as it found it.
C2_Idempotent ==
    (prev.stage = stage /\ prev.end = "done" /\ prev.failed = {}
        /\ prev.statusFilter = statusFilter) =>
        /\ calls = {}
        /\ pc = "done" => file = startFile

\* every entry of map m is an entry of map n, with the same new identifier
EntriesKept(m, n) ==
    \A k \in DOMAIN m : \A id \in DOMAIN m[k] :
        k \in DOMAIN n /\ id \in DOMAIN n[k] /\ n[k][id] = m[k][id]

\* C3 (as claimed). Write-once: no step changes or removes an entry of the mapping
\* file, nor an entry of the in-memory map while the run goes on.
C3_WriteOnce ==
    [][ /\ EntriesKept(file.map, file'.map)
        /\ (Running /\ pc' \in {"loop", "await", "done"}) => EntriesKept(mem, mem')
      ]_vars

\* the entry of id is in the mapping file, as the run holds it in memory
Durable(id) ==
    /\ file.exists
    /\ Truthy(Entry(file.map, TableOf(id), id))
    /\ Entry(file.map, TableOf(id), id) = Entry(mem, TableOf(id), id)

\* C4 (as claimed). When a creation call is issued, the mapping of every record
\* created earlier in the same run is in the mapping file.
C4_DurableBeforeNext ==
    pc = "await" => \A id \in WrittenIds : Durable(id)

\* C5 (as claimed). A price whose product is not mapped is neither created nor
\* mapped, the run does not end because of it, and a complete run has issued a call
\* for every unmapped price whose product is mapped.
C5_PriceGating ==
    (stage \in ProductStages /\ pc # "killed") =>
        /\ \A id \in (calls \cup WrittenIds) \cap SeqIds(exports.prices) :
               DepsMapped(mem, id)
        /\ ~(pc = "aborted" /\ \E i \in 1..Len(errors) : errors[i].why = "dependency")
        /\ pc = "done" =>
               \A id \in SeqIds(exports.prices) :
                   DepsMapped(mem, id) =>
                       id \in calls \/ Truthy(Entry(startFile.map, "prices", id))

\* C6. A subscription creation call is issued only when the customer and all item
\* prices are mapped; the request names the mapped customer and one mapped price per
\* source item; a subscription with a missing reference gets no call and no entry,
\* and does not end the run.
C6_SubscriptionGating ==
    (stage \in SubStages /\ pc # "killed") =>
        /\ \A id \in calls \cup WrittenIds : DepsMapped(mem, id)
        /\ (pc = "await") =>
              LET sub == SubOf(req.old) IN
              /\ req.customer = Entry(mem, "customers", sub.customer)
              /\ Truthy(req.customer)
              /\ Len(req.items) = Len(sub.items)
              /\ \A i \in 1..Len(sub.items) :
                     /\ req.items[i].price = Entry(mem, "prices", sub.items[i].price.id)
                     /\ Truthy(req.items[i].price)
        /\ ~(pc = "aborted" /\ \E i \in 1..Len(errors) : errors[i].why = "dependency")
        /\ pc = "done" => idx = Len(subsToMigrate) + 1

\* C6 witness: a call is outstanding for a subscription after an earlier subscription
\* of the run was passed over for a missing reference.
C6_Witness ==
    /\ stage \in SubStages /\ pc = "await" /\ idx >= 2
    /\ \E i \in 1..(idx - 1) :
           /\ ~DepsMapped(mem, subsToMigrate[i].id)
           /\ subsToMigrate[i].id \notin calls
    /\ DepsMapped(mem, req.old)

\* the subscriptions run found all its M records unmapped with their references
\* mapped, has completed, and the target rejected exactly one creation
OneRejection ==
    /\ stage \in SubStages /\ pc = "done"
    /\ \A id \in StageIds :
           DepsMapped(mem, id) /\ ~Truthy(Entry(startFile.map, "subscriptions", id))
    /\ Cardinality(calls \ WrittenIds) = 1

\* the error collection of the run: the entries pushed on its errors array
ErrorCollection == SelectSeq(errors, LAMBDA e : e.via = "errors")

\* C7 (as claimed). Per-item isolation: such a run ends with M - 1 new subscription
\* mappings, all in the mapping file, and its error collection holds exactly one
\* entry, which names the rejected subscription.
C7_PerItemIsolation ==
    OneRejection =>
        /\ Len(written) = Cardinality(StageIds) - 1
        /\ \A id \in WrittenIds : Truthy(Entry(file.map, "subscriptions", id))
        /\ Len(ErrorCollection) = 1
        /\ ErrorCollection[1].id \in calls \ WrittenIds

\* C8 (as claimed). A failed creation is reported and never ends the run: every
\* later record is still processed.
C8_NeverAborts ==
    /\ pc \in {"loop", "done", "aborted"} => FailedIds = calls \ WrittenIds
    /\ pc = "aborted" => FailedIds = {}

\* C9. A record whose creation failed gets no mapping entry in that run, and the
\* next run of the same stage, when it completes, has issued a creation call for it.
C9_FailedStaysUnmapped ==
    /\ FailedIds \cap WrittenIds = {}
    /\ \A id \in FailedIds :
           Running \/ pc = "done" =>
               Entry(mem, TableOf(id), id) = Entry(startFile.map, TableOf(id), id)
    /\ (pc = "done" /\ prev.stage = stage) =>
           \A id \in prev.failed \cap StageIds : id \in calls

\* C9 witness: a completed run has retried the record that failed in the previous
\* run of the same stage.
C9_Witness ==
    /\ pc = "done" /\ prev.stage = stage
    /\ prev.failed # {} /\ prev.failed \subseteq calls \cap WrittenIds

\* C10. Free/paid bifurcation of the subscription creation request.
C10_FreePaid ==
    (pc = "await" /\ req.kind = "subscriptions") =>
        LET sub == SubOf(req.old)
            amounts == {sub.items[i].price.unit_amount : i \in 1..Len(sub.items)} IN
        /\ amounts \subseteq {0} =>
               req.trial_end = TrialNow /\ req.payment_behavior = Undefined
        /\ (\E a \in amounts : a > 0) =>
               req.payment_behavior = <<"default_incomplete">>

\* C10 witness: a request for the subscription that mixes a free and a paid item.
C10_Witness ==
    /\ pc = "await" /\ req.kind = "subscriptions" /\ req.old = "sub_2"
    /\ req.payment_behavior = <<"default_incomplete">>

\* a subscription creation request is outstanding at the target
SubscriptionCall == pc = "await" /\ req.kind = "subscriptions"

\* C11 (as claimed). Billing-cycle anchor rule: a subscription creation request
\* carries billing_cycle_anchor exactly when the source anchor is later than the
\* time of the run, and then it is the source anchor.
C11_AnchorRule ==
    SubscriptionCall =>
        LET sub == SubOf(req.old) IN
        /\ Truthy(req.billing_cycle_anchor) <=> sub.billing_cycle_anchor > req.now
        /\ Truthy(req.billing_cycle_anchor) =>
               req.billing_cycle_anchor = Ts(sub.billing_cycle_anchor)

\* C12 (as claimed). Billing-cycle trial rule: when the source anchor has passed and
\* current_period_end is later than the time of the run, the request's trial_end is
\* the source current_period_end.
C12_TrialRule ==
    SubscriptionCall =>
        LET sub == SubOf(req.old) IN
        (sub.billing_cycle_anchor <= req.now /\ sub.current_period_end > req.now) =>
            req.trial_end = Ts(sub.current_period_end)

\* C13 (as claimed). Periodic checkpoint: whenever the number of records migrated in
\* the run is a multiple of the configured batchSize, the mapping file holds every
\* mapping the run has made.
C13_PeriodicCheckpoint ==
    (stage \in Stages /\ Running /\ migratedCount > 0 /\ migratedCount % batchSize = 0) =>
        \A id \in WrittenIds : Durable(id)

\* C14 (as claimed). End-of-run flush: when a run has ended, by completing or by an
\* exception, the mapping file holds every mapping the run has made.
C14_EndOfRunFlush ==
    (stage \in Stages /\ pc \in {"done", "aborted"}) =>
        \A id \in WrittenIds : Durable(id)

\* C15 (as claimed). Mapping file shape: an existing mapping file holds the four
\* tables, each from old identifiers to new identifiers, none of them empty; after a
\* complete product run from no file it holds one key per product and per price
\* the run created.
C15_FileShape ==
    /\ file.exists =>
          /\ DOMAIN file.map = Kinds
          /\ \A k \in Kinds : \A id \in DOMAIN file.map[k] :
                 id # "" /\ Truthy(file.map[k][id])
    /\ (stage \in ProductStages /\ pc = "done" /\ ~startFile.exists) =>
          /\ DOMAIN file.map["products"] = WrittenIds \cap SeqIds(exports.products)
          /\ DOMAIN file.map["prices"] = WrittenIds \cap SeqIds(exports.prices)
          /\ Cardinality(DOMAIN file.map["products"]) + Cardinality(DOMAIN file.map["prices"])
                 = Len(written)

LibStages == {"LibProducts", "LibCustomers", "LibSubscriptions"}

\* C16. Mapping store load/save: a library run that finds its dataset file starts
\* from the persisted mapping, or from four empty tables when there is no file;
\* every write of the file replaces its whole content by the in-memory map, so that
\* a load after it returns that map.
C16_LoadSave ==
    [][ /\ (runs' = runs + 1 /\ stage' \in LibStages /\ MissingFile(stage') = "") =>
              mem' = IF file.exists THEN file.map ELSE [k \in Kinds |-> EmptyTable]
        /\ (file' # file) =>
              /\ file'.exists /\ file'.map = mem'
              /\ (IF file'.exists THEN file'.map ELSE [k \in Kinds |-> EmptyTable]) = mem'
      ]_vars

\* C16 witness: a library run that loaded an existing file has completed and the
\* file, rewritten, holds the run's map.
C16_Witness ==
    /\ stage \in LibStages /\ pc = "done" /\ startFile.exists
    /\ written # <<>> /\ file # startFile /\ file.map = mem

\* C19. Dependency order: a price creation call is issued only in the price loop,
\* after every product of the dataset has been processed (created, attempted, or
\* found mapped); a subscription creation call is issued only by a subscription run,
\* which issues no other kind of call, and only for a subscription whose customer and
\* prices earlier runs have mapped.
C19_DependencyOrder ==
    /\ (pc = "await" /\ req.kind = "products") => kind = "products"
    /\ (pc = "await" /\ req.kind = "prices") =>
          /\ stage \in ProductStages /\ kind = "prices"
          /\ \A p \in SeqIds(exports.products) :
                 p \in calls \/ Truthy(Entry(startFile.map, "products", p))
    /\ SubscriptionCall =>
          /\ stage \in SubStages
          /\ calls \subseteq SeqIds(exports.subscriptions)
          /\ DepsMapped(startFile.map, req.old)

\* C19 witness: a price creation call is outstanding in a run that started without a
\* mapping file and has issued a call for every product.
C19_Witness ==
    /\ pc = "await" /\ req.kind = "prices" /\ ~startFile.exists
    /\ SeqIds(exports.products) \subseteq calls

\* C20 (as claimed). Status filter: a subscription run creates and maps only
\* subscriptions whose status is in its statusFilter; the filter is the one the
\* options give, or {active, trialing} when they give none, and a run does not fail
\* for a missing statusFilter.
C20_StatusFilter ==
    stage \in SubStages =>
        /\ \A id \in calls \cup WrittenIds : SubOf(id).status \in statusFilter
        /\ pc # "idle" =>
               statusFilter \in {Script7StatusFilter(o) : o \in OptionsArguments}
        /\ \A i \in 1..Len(errors) : errors[i].id # "statusFilter"

\* the kinds of record an export stage writes
ExportedKinds(s) ==
    CASE s \in ProductExportStages -> {"products", "prices"}
      [] s \in {"LibExportCustomers", "Script1"} -> {"customers"}
      [] s \in {"LibExportSubscriptions", "Script3"} -> {"subscriptions"}
      [] OTHER -> {}

\* the records of kind k that the pages requested by an export hold
Requested(k) ==
    IF k \in {"products", "prices"}
    THEN ListPage(Listing(k), Undefined, pageLen).data
    ELSE Listing(k)

\* C17. Export is all-or-nothing: a step in which a list request fails ends the
\* export with that one error and leaves the dataset files as they were; a dataset
\* file is written only by the step that completes an export, and then holds the
\* records of all the pages the export requested.
C17_AllOrNothing ==
    [][ /\ (stage' \in ExportStages /\ pc' \in {"aborted", "killed"}) =>
              exports' = exports /\ present' = present
        /\ (stage' \in ExportStages /\ pc' = "aborted") =>
              Len(errors') = 1 /\ errors'[1].why = "list" /\ errors'[1].id = kind
        /\ (exports' # exports \/ present' # present) =>
              /\ pc' = "done"
              /\ present' = present \cup {ExportFile(kind)}
              /\ \A k \in Kinds :
                     exports'[k] = IF k \in ExportedKinds(stage)
                                   THEN Requested(k) ELSE exports[k]
      ]_vars

\* C17 witness: an export has failed after it had read a page, and the dataset file
\* of its kind holds none of it.
C17_Witness ==
    /\ stage \in CursorExportStages /\ pc = "aborted"
    /\ buf # <<>> /\ Len(errors) = 1
    /\ exports[kind] \in {NoExports[kind], StaleExports[kind]}
    /\ exports[kind] # buf

\* C18 (as claimed). Export completeness: every list request of an export carries no
\* cursor when nothing has been read and else the identifier of the last record
\* read, and a completed export has persisted the whole listing of each of its
\* kinds, in order.
C18_ExportComplete ==
    stage \in ExportStages =>
        /\ (pc = "await" /\ stage \in CursorExportStages) =>
               /\ req.starting_after =
                      IF buf = <<>> THEN Undefined ELSE After(buf[Len(buf)].id)
               /\ buf = Prefix(Listing(kind), Len(buf))
        /\ pc = "done" => \A k \in ExportedKinds(stage) : exports[k] = Listing(k)

\* the stage needs the mapping file: it reads it without a fallback, or the records
\* it migrates refer to records that earlier stages mapped
NeedsMappingFile(s) == ReadsMappingFile(s) \/ s \in SubStages

\* a file the running stage needs was missing when it started
SetupMissing ==
    \/ \E d \in Range(DatasetsOf(stage)) : d \notin present
    \/ NeedsMappingFile(stage) /\ ~startFile.exists

\* C21 (as claimed). Fatal setup errors: every step of a migration run started while
\* a file it needs is missing leaves the run ended with one setup error, no call
\* issued to the target and no mapping made, and writes neither the mapping file nor
\* a dataset file nor an error file.
C21_FatalSetup ==
    [][ (stage' \in Stages /\ SetupMissing') =>
            /\ pc' = "aborted"
            /\ Len(errors') = 1 /\ errors'[1].why = "setup"
            /\ errors'[1].id \in DatasetFiles \cup {MappingFile}
            /\ calls' = {} /\ written' = <<>> /\ req' = NoReq
            /\ file' = file /\ exports' = exports /\ errorFiles' = errorFiles
      ]_vars

\* C29 (as claimed). No torn writes: every write of the mapping file leaves it equal
\* to the in-memory map, and while a run goes on every entry of the file is an entry
\* of the in-memory map.
C29_NoTornWrites ==
    [][ /\ (file' # file) => file'.map = mem'
        /\ (stage' \in Stages /\ pc' \in {"loop", "await"} /\ file'.exists) =>
               EntriesKept(file'.map, mem')
      ]_vars

\* the records the running loop walks over
LoopRecords ==
    CASE kind = "products" -> exports.products
      [] kind = "prices" -> exports.prices
      [] kind = "customers" -> exports.customers
      [] OTHER -> subsToMigrate

\* calls of the run that have neither returned nor failed
Outstanding == calls \ (WrittenIds \cup FailedIds)

\* C30. Sequential, in-order processing: at most one creation call is outstanding,
\* it is the call for the record the loop stands at, every record before it has
\* been handled (called, found mapped, or passed over for a missing reference), and
\* the mappings of a kind are written in dataset order.
C30_SequentialInOrder ==
    (stage \in Stages /\ Running) =>
        LET records == LoopRecords
            ids == SeqIds(records)
            pos(id) == CHOOSE i \in 1..Len(records) : records[i].id = id IN
        /\ pc = "await" => idx <= Len(records) /\ req.old = records[idx].id
                           /\ Outstanding = {req.old}
        /\ pc = "loop" => Outstanding = {}
        /\ \A j \in 1..Len(records) :
               j < idx =>
                   \/ records[j].id \in calls
                   \/ Truthy(Entry(mem, kind, records[j].id))
                   \/ ~DepsMapped(mem, records[j].id)
        /\ \A id \in calls \cap ids : pos(id) <= idx
        /\ \A a, b \in 1..Len(written) :
               (a < b /\ written[a] \in ids /\ written[b] \in ids) =>
                   pos(written[a]) < pos(written[b])

\* C30 witness: the call for the third customer is outstanding after the calls for
\* the first two have returned.
C30_Witness ==
    /\ stage \in CustomerStages /\ pc = "await" /\ idx = 3
    /\ Len(written) + Cardinality(FailedIds) = 2

\* ------------------------------------------------------------- reporting claims
\* the subscriptions of the dataset, by identifier
DatasetSub(id) == CHOOSE s \in Range(exports.subscriptions) : s.id = id
\* the subscription has an entry in the mapping the run loaded
Migrated(id) == HasTable(mem, "subscriptions") /\ Truthy(Get(mem, "subscriptions", id))
LinkedSubs == {links[i].oldSubscriptionId : i \in 1..Len(links)}
ErrorIds == {errors[i].id : i \in 1..Len(errors)}

\* C22: a link is requested and recorded only for a paid, active or trialing
\* subscription that has an entry in the mapping, and every recorded link
\* carries a defined new subscription and new customer identifier.
C22_LinksOnlyForMigrated ==
    stage = "Script8" =>
        /\ (pc = "await" =>
                /\ isPaid(DatasetSub(req.old)) /\ isActive(DatasetSub(req.old))
                /\ Migrated(req.old))
        /\ \A i \in 1..Len(links) :
                /\ Truthy(links[i].newSubscriptionId)
                /\ Truthy(links[i].newCustomerId)
\* a link is recorded whose new subscription identifier is undefined
C22_Counterexample ==
    /\ stage = "Script8" /\ pc = "done"
    /\ \E i \in 1..Len(links) :
            /\ ~Truthy(links[i].newSubscriptionId)
            /\ links[i].oldSubscriptionId = "sub_2"

\* C23: when link generation completes, every migrated active or trialing
\* subscription that the Migrator classifies as not free has been selected: a
\* session was requested for it or an error was recorded for it.
C23_PaidAgreesWithNotFree ==
    (stage = "Script8" /\ pc = "done") =>
        \A s \in Range(exports.subscriptions) :
            (isActive(s) /\ ~isFree(s) /\ Migrated(s.id)) =>
                s.id \in calls \cup ErrorIds
\* the migrated tiered subscription, not free for the Migrator, was passed over
C23_Counterexample ==
    /\ stage = "Script8" /\ pc = "done"
    /\ Migrated("sub_4") /\ ~isFree(DatasetSub("sub_4")) /\ isActive(DatasetSub("sub_4"))
    /\ "sub_4" \notin calls \cup ErrorIds
    /\ Len(links) = Len(paidSubscriptions)

\* C24: a failure for one subscription is recorded and the next subscription is
\* processed; on completion generated + errors equals the number of
\* subscriptions selected, every one of them has a link or an error, never both.
C24_LinkIsolation ==
    /\ (stage = "Script8" /\ pc \in {"loop", "await"}) =>
            /\ migratedCount = Len(links)
            /\ migratedCount + Len(errors) = idx - 1
            /\ LinkedSubs \cup ErrorIds = {paidSubscriptions[j].id : j \in 1..(idx - 1)}
    /\ (stage = "Script8" /\ pc = "done") =>
            /\ migratedCount = Len(links)
            /\ migratedCount + Len(errors) = Len(paidSubscriptions)
            /\ LinkedSubs \cup ErrorIds = SeqIds(paidSubscriptions)
            /\ LinkedSubs \cap ErrorIds = {}
C24_Witness ==
    /\ stage = "Script8" /\ pc = "done"
    /\ Len(links) = 1 /\ Len(errors) = 1 /\ errors[1].why = "create"
    /\ links[1].oldSubscriptionId = "sub_5"

\* C25: a run requests a fresh session for every selected subscription whose
\* customer is mapped, whatever links an earlier run left; it records at most
\* one link per subscription, and the links file it writes holds the links of
\* this run only.
C25_NoDedupAcrossRuns ==
    [][ (stage = "Script8" /\ pc = "loop" /\ pc' = "done") =>
            /\ linksFile' = [exists |-> TRUE, links |-> links]
            /\ \A i, j \in 1..Len(links) :
                    links[i].oldSubscriptionId = links[j].oldSubscriptionId => i = j
            /\ \A i \in 1..Len(links) : \A j \in 1..Len(linksFile.links) :
                    links[i].sessionId # linksFile.links[j].sessionId
            /\ \A j \in 1..Len(paidSubscriptions) :
                    (/\ HasTable(mem, "customers") /\ HasTable(mem, "subscriptions")
                     /\ Truthy(Get(mem, "customers", paidSubscriptions[j].customer)))
                        => paidSubscriptions[j].id \in calls ]_vars
C25_Witness ==
    /\ stage = "Script8" /\ pc = "done" /\ prev.stage = "Script8" /\ prev.end = "done"
    /\ Len(links) = 2 /\ sessions = 4
    /\ linksFile.links = links

\* C26: the link generator and the status monitor never write the mapping
\* file, and the monitor issues read calls only.
C26_ReadOnlyReporting ==
    [][ /\ file' = file /\ target' = target
        /\ (stage' = "Script9") =>
                /\ sessions' = sessions /\ linksFile' = linksFile
                /\ req'.kind \in {"none", "retrieve", "list"} ]_vars
C26_Witness ==
    /\ stage = "Script9" /\ pc = "done" /\ prev.stage = "Script8" /\ prev.end = "done"
    /\ sessions > 0 /\ reportFile.exists /\ linksFile.exists /\ file = startFile

\* old identifiers of the customers whose lookup `why` failed in this scan
FailedLookups(why) == {errors[i].id : i \in {j \in 1..Len(errors) : errors[j].why = why}}
\* the customers of the loaded mapping, by old identifier
ScannedCustomers == {c.old : c \in newCustomerIds(mem)}
InTarget(old) == account[mem["customers"][old]]
\* the number of subscriptions of customer `old` in the target that satisfy P
HoldsCount(old, P(_)) ==
    Cardinality({i \in 1..Len(InTarget(old).subscriptions) : P(InTarget(old).subscriptions[i])})
\* the sum of f over S
RECURSIVE SumOver(_, _)
SumOver(S, f) ==
    IF S = {} THEN 0
    ELSE LET x == CHOOSE y \in S : TRUE IN f[x] + SumOver(S \ {x}, f)
Holding(P(_)) == [c \in ScannedCustomers |-> HoldsCount(c, P)]
IsActiveSub(s) == s.status = "active"
IsIncompleteSub(s) == s.status = "incomplete"
IsActiveFree(s) == s.status = "active" /\ \A i \in 1..Len(s.items) : s.items[i].price.unit_amount = 0
IsActivePaid(s) == s.status = "active" /\ \E i \in 1..Len(s.items) : s.items[i].price.unit_amount # 0
\* the scan ran its loop
ScanStarted == stage = "Script9" /\ startFile.exists /\ HasTable(startFile.map, "customers")
\* the counts of a finished scan in which the customers in `out` are counted
\* neither with nor without a payment instrument and those in `dropped`
\* contribute no subscription
ScanCounts(out, dropped) ==
    LET counted == ScannedCustomers \ out
        listed == ScannedCustomers \ dropped IN
    /\ stats.total = Cardinality(DOMAIN mem["customers"])
    /\ stats.withPaymentMethod + stats.withoutPaymentMethod = stats.total - Cardinality(out)
    /\ stats.withPaymentMethod = Cardinality({c \in counted : InTarget(c).hasPaymentMethod})
    /\ stats.activeSubscriptions = SumOver(listed, Holding(IsActiveSub))
    /\ stats.incompleteSubscriptions = SumOver(listed, Holding(IsIncompleteSub))
    /\ stats.freeSubscriptions = SumOver(listed, Holding(IsActiveFree))
    /\ stats.paidSubscriptions = SumOver(listed, Holding(IsActivePaid))

\* C27 (as amended): a failed lookup never aborts the scan; total is the number
\* of customers in the mapping; a customer whose retrieval failed is counted
\* neither with nor without a payment instrument, a customer whose
\* subscription listing failed is still counted with or without one, and
\* either contributes to no subscription count, so with + without equals
\* total minus the customers whose retrieval failed.
C27_MonitorIsolation ==
    /\ ScanStarted => pc # "aborted"
    /\ (ScanStarted /\ pc = "done") =>
            ScanCounts(FailedLookups("retrieve"),
                       FailedLookups("retrieve") \cup FailedLookups("list"))
C27_Witness ==
    /\ ScanStarted /\ pc = "done" /\ FailedLookups("list") = {"cus_1"}
    /\ stats.withoutPaymentMethod = 2 /\ stats.activeSubscriptions = 1
    /\ reportFile.summary = stats
\* C27 as stated: every customer with a failed lookup is left out of both
\* payment-instrument counts.
C27_AsStated ==
    /\ ScanStarted => pc # "aborted"
    /\ (ScanStarted /\ pc = "done") =>
            ScanCounts(FailedLookups("retrieve") \cup FailedLookups("list"),
                       FailedLookups("retrieve") \cup FailedLookups("list"))

\* customers of the needs-action list of the finished scan
NeedingAction ==
    {stats.customersNeedingAction[i].customerId : i \in 1..Len(stats.customersNeedingAction)}

\* C28: after a scan a customer is in the needs-action list exactly when both
\* its lookups succeeded, it has no payment instrument and it holds an active
\* subscription that is not free; each such customer is listed once.
C28_NeedsAction ==
    (ScanStarted /\ pc = "done") =>
        /\ NeedingAction =
              {mem["customers"][c] : c \in
                 {d \in Range(written) : /\ ~InTarget(d).hasPaymentMethod
                                          /\ HoldsCount(d, IsActivePaid) > 0}}
        /\ Len(stats.customersNeedingAction) = Cardinality(NeedingAction)
\* a customer with two active paid subscriptions is listed twice
C28_Counterexample ==
    /\ ScanStarted /\ pc = "done" /\ errors = << >>
    /\ Len(stats.customersNeedingAction) = 2
    /\ NeedingAction = {NewId("cus_1", 1)}

\* ------------------------------------------------------------ behaviour claims
\* C31. Paid trial preservation: the creation request of a paid subscription
\* carries the source trial end as its trial_end only if that trial end is later
\* than the time of the run; a source trial end that has passed is never sent.
C31_PaidTrialPreserved ==
    (SubscriptionCall /\ ~isFree(SubOf(req.old))) =>
        LET sub == SubOf(req.old) IN
        /\ req.payment_behavior = <<"default_incomplete">>
        /\ req.trial_end # TrialNow
        /\ (sub.trial_end # 0 /\ req.trial_end = Ts(sub.trial_end)) => sub.trial_end > req.now
        /\ (sub.trial_end # 0 /\ sub.trial_end <= clock) => req.trial_end # Ts(sub.trial_end)
\* a paid subscription whose trial has ended is requested without that trial end,
\* after the same subscription was requested with it by an earlier run
C31_Witness ==
    /\ SubscriptionCall /\ req.old = "sub_2" /\ clock >= 1
    /\ SubOf("sub_2").trial_end = 1 /\ req.trial_end # Ts(1)
    /\ "sub_2" \in prev.failed

\* the tables of map m hold only identifiers the target returned for a creation
\* whose request embedded the key of the entry
Sound(m) ==
    \A k \in DOMAIN m : \A old \in DOMAIN m[k] :
        \E n \in 1..target[old] : m[k][old] = NewId(old, n)

\* C32. Traceability and soundness of the mapping: a creation request embeds the
\* old identifier of the record it is made from, whatever the source metadata
\* holds under the same key, and keeps the source metadata under every key the
\* stage does not set itself; every entry of the in-memory map and of the mapping
\* file is the identifier the target returned for a creation whose request
\* embedded the entry's key.
C32_Traceable ==
    /\ (stage \in Stages /\ pc = "await") =>
            /\ req.old = LoopRecords[idx].id
            /\ Traced(req) = req.old
            /\ \A x \in DOMAIN SourceMetadata(LoopRecords[idx])
                        \ {OldIdKey(req.kind), "migrated_at", "migration_date",
                           "subscription_type"} :
                    req.metadata[x] = SourceMetadata(LoopRecords[idx])[x]
    /\ \A m \in (IF stage \in Stages THEN {mem} ELSE {})
                   \cup (IF file.exists THEN {file.map} ELSE {}) : Sound(m)
\* a record whose source metadata holds the same key has been created and mapped
C32_Witness ==
    /\ stage \in CustomerStages /\ pc = "done" /\ ~startFile.exists
    /\ SourceMetadata(exports.customers[1])[OldIdKey("customers")] = "cus_0"
    /\ Entry(file.map, "customers", "cus_1") = NewId("cus_1", 1)

\* every product, price, customer and status-eligible subscription of the datasets
\* has an entry in the mapping file
AllMapped ==
    /\ file.exists
    /\ \A k \in {"products", "prices", "customers"} :
          \A id \in SeqIds(exports[k]) : Truthy(Entry(file.map, k, id))
    /\ \A i \in 1..Len(exports.subscriptions) :
          exports.subscriptions[i].status \in DefaultStatusFilter =>
              Truthy(Entry(file.map, "subscriptions", exports.subscriptions[i].id))

\* C33 (as claimed). Convergence by re-running: when the stages are re-run in
\* dependency order and creation calls stop failing, eventually every record of
\* the datasets has a mapping entry, and once that is so no run issues a creation
\* call.
C33_Convergence ==
    /\ <>AllMapped
    /\ [][AllMapped => (pc' = "await" => pc = "await")]_vars

\* the stages that keep an error side file
ErrorFileStages == {"Script6", "Script7", "Script8"}

\* C34 (as claimed). Error side file reflects the run: after a run of script 6,
\* script 7 or the link generator has completed, the error file of the stage
\* holds exactly the errors collected in that run; after a run with no errors it
\* holds none.
C34_ErrorFileOfRun ==
    (stage \in ErrorFileStages /\ pc = "done") => errorFiles[stage].errors = errors

\* C35 (as claimed). Run summary of subscription migration: in the result of a run
\* of script 7, free + paid equals the number of subscriptions migrated and total
\* equals migrated + skipped + errors, whatever creations failed.
C35_RunSummary ==
    (stage = "Script7" /\ pc = "done") =>
        /\ Script7Result.free + Script7Result.paid = Script7Result.migrated
        /\ Script7Result.total =
              Script7Result.migrated + Script7Result.skipped + Script7Result.errors

\* the tables a stage migrates
OwnTables(s) ==
    CASE s \in ProductStages -> {"products", "prices"}
      [] s \in CustomerStages -> {"customers"}
      [] OTHER -> {"subscriptions"}
\* table k of mapping file f; no entries when the file or the table is missing
Persisted(f, k) == IF f.exists /\ k \in DOMAIN f.map THEN f.map[k] ELSE EmptyTable

\* C36. A stage changes only its own tables: no step of a migration run changes,
\* in the mapping file, the entries of a table of another kind.
C36_OwnTablesOnly ==
    [][ stage' \in Stages =>
            \A k \in Kinds \ OwnTables(stage') : Persisted(file', k) = Persisted(file, k) ]_vars
\* a customer run has rewritten a file that holds products and prices
C36_Witness ==
    /\ stage \in CustomerStages /\ pc = "done" /\ written # << >>
    /\ startFile.exists /\ file # startFile
    /\ Persisted(file, "prices") = Persisted(startFile, "prices")
    /\ Persisted(file, "prices") # EmptyTable

\* how many of the customers the run has created are in the mapping file
FlushedCount ==
    IF pc = "done" THEN Len(written) ELSE batchSize * (migratedCount \div batchSize)
\* the dataset positions the loop has reached, the outstanding one included
Reached == {j \in 1..Len(exports.customers) : j < idx \/ (j = idx /\ pc = "await")}

\* C37 (as claimed). Library and script agree on customers: from the same dataset,
\* existing mapping file, batch size and target answers, either implementation
\* has issued calls for the customers not mapped in the file it started from, in
\* dataset order, has flushed at every multiple of the batch size and at the end,
\* and has left the other tables as they were; so the two leave the same file.
C37_CustomersAgree ==
    (stage \in CustomerStages /\ startFile.exists /\ pc # "killed"
        /\ "customers-export.json" \in present) =>
        /\ pc \in {"loop", "await", "done"}
        /\ calls = {exports.customers[j].id : j \in
                      {i \in Reached :
                         ~Truthy(Entry(startFile.map, "customers", exports.customers[i].id))}}
        /\ file.exists
        /\ \A k \in Kinds \ {"customers"} : Persisted(file, k) = Persisted(startFile, k)
        /\ DOMAIN Persisted(file, "customers") =
              DOMAIN Persisted(startFile, "customers") \cup {written[i] : i \in 1..FlushedCount}
        /\ \A id \in DOMAIN Persisted(file, "customers") :
              Persisted(file, "customers")[id] = Entry(mem, "customers", id)

\* a paginated export is waiting for a page
PageAwaited == stage \in CursorExportStages /\ pc = "await"
\* the pages read so far are the first whole pages of the listing, the request
\* outstanding asks for the page after them, and more is left to read
PagesInOrder ==
    /\ PageAwaited =>
          /\ hasMore /\ req = ListRequest(kind, startingAfter)
          /\ buf = Prefix(Listing(kind), Len(buf))
          /\ Len(buf) % pageLen = 0
          /\ Len(buf) < Len(Listing(kind)) \/ buf = << >>
          /\ startingAfter = IF buf = << >> THEN Undefined ELSE After(buf[Len(buf)].id)
    /\ (stage \in CursorExportStages /\ pc = "done") =>
          /\ ~hasMore /\ req = NoReq
          /\ buf = Listing(kind) /\ exports[kind] = buf

\* C38. Export termination: a paginated export has one page request outstanding
\* at a time, each asking for the page after the last identifier read; it stops
\* and writes the dataset when the source reports no further page, so over a
\* source of finitely many pages every export ends, after one request per page.
C38_ExportTerminates ==
    /\ []PagesInOrder
    /\ PageAwaited ~> (pc \in {"done", "aborted", "killed"})
\* an export has ended after three page requests
C38_Witness ==
    /\ stage \in CursorExportStages /\ pc = "done"
    /\ pageLen = 1 /\ Len(buf) = 3 /\ exports[kind] = Listing(kind)

\* the table of the migration map a column is rewritten by
ColumnMapping(t, c) ==
    (CHOOSE b \in Range(Batches) : b.tableName = t /\ b.columnName = c).mapping
\* the database with every source identifier the map translates replaced by its
\* target identifier
Translated(d, m) ==
    [t \in DOMAIN d |-> [i \in DOMAIN d[t] |-> [c \in DOMAIN d[t][i] |->
        LET from == m[ColumnMapping(t, c)]
            hit == {o \in DOMAIN from : d[t][i][c] = Stored(o) /\ Truthy(from[o])}
        IN  IF hit = {} THEN d[t][i][c] ELSE from[CHOOSE o \in hit : TRUE]]]]
\* statements of the batches in p
Left(p) == SumOver(DOMAIN p, [i \in DOMAIN p |-> Cardinality(p[i])])
\* statements the run has executed
Executed == Left(Statements(file.map)) - Left(plan)

\* the finally block is running: sequelize.close() is awaited
Closing == {"close", "closeThrown"}

\* C39. The database column rewrite is transactional: the column values change
\* only when the one transaction commits, which is asked for only after every
\* update statement of every configured table and column has run, and then every
\* mapped identifier is rewritten; when a statement fails the rollback of the
\* transaction is asked for and no column value is changed; after the commit and
\* after the rollback the run goes on to close the connection, and a run that
\* ends without an error has closed it.
C39_Transactional ==
    [][ /\ db' # db =>
            /\ dbpc = "update" /\ txn = "open" /\ plan = << >>
            /\ db' = Translated(db, file.map)
        /\ (dbpc = "update" /\ dbpc' \notin {"update", "killed"}) =>
            IF plan # << >> THEN dbpc' = "rollback" /\ txn' = "open"
            ELSE txn' = "commit" /\ dbpc' \in Closing
        /\ (dbpc = "rollback" /\ dbpc' # "killed") =>
            /\ txn' = "rollback" /\ db' = db /\ work' = db
            /\ dbpc' \in Closing
        /\ (dbpc \in Closing /\ dbpc' # "killed") =>
            \/ conn' = "closed"
            \/ dbpc' = "crashed"
        /\ dbpc' \in {"done", "rolledback"} =>
            /\ conn' = "closed"
            /\ txn' = (IF dbpc' = "done" THEN "commit" ELSE "rollback") ]_vars
\* a statement failed after others had rewritten rows inside the transaction,
\* and the run has ended with the rollback made and the connection closed
C39_Witness ==
    /\ dbpc = "rolledback" /\ txn = "rollback" /\ conn = "closed" /\ ExitCode = 0
    /\ Kinds \subseteq DOMAIN file.map
    /\ Executed >= 2 /\ plan # << >> /\ \A q \in Head(plan) : q.kind = "update"
    /\ db = DatabaseA /\ work = db

====
